---- MODULE Spec2Model ----
(***************************************************************************)
(* Forecast Engine v1 (backend/app/engine/forecast.py) and the forecast    *)
(* endpoints (backend/app/api/forecast.py).                                *)
(*                                                                         *)
(* Units.  Durations are integers in centi-days (100 = one day), dates are *)
(* centi-days since an epoch, probabilities, percentages and multipliers   *)
(* are integers in percent.  The bounded inputs are chosen so that every   *)
(* product the engine forms is exact in these units.                       *)
(*                                                                         *)
(* Optional values.  A dict key that is missing (or None) is <<>>, a       *)
(* present value v is <<v>>.  A dict that the engine adds keys to is a     *)
(* record [present, entries]: present says whether the key holding the     *)
(* dict exists, entries is the dict as a function.                         *)
(***************************************************************************)
EXTENDS Integers, Sequences, FiniteSets, TLC

VARIABLES state_snapshot, now, call, result,
          rules, engine_state, engine_call, engine_result,
          store, trail, threads

forecast_vars == <<state_snapshot, call, result>>

engine_vars == <<rules, engine_state, engine_call, engine_result>>

store_vars == <<store, trail>>

vars ==
    <<state_snapshot, now, call, result, rules, engine_state, engine_call, engine_result,
      store, trail, threads>>

\* ------------------------------------------------------------------ bounds
MaxClock == 1
MaxRisks == 7
RecursionLimit == 6
MaxCustomRules == 2

\* the number of submissions executed against the stored world
MaxEvents == 3

\* ------------------------------------------------------- program constants
CONTRIB_MIN == 10
DEP_TRACK_MIN == 50
RISK_TRACK_MIN == 50
RISK_CAP == 1500
DEFAULT_IMPACT == 300
DEFAULT_PROBABILITY == 50
OPEN_FACTOR == 60
MITIGATING_FACTOR == 25
BUFFER_BASE == 150
BUFFER_PER_RISK == 150
BUFFER_PER_EXTERNAL == 75
BUFFER_CAP == 1200
BLOCKED_DELAY == 500
DEFAULT_ESTIMATE == 500
DEFAULT_CONFIDENCE == 70
SCOPE_FACTOR == 80
TOP_N == 5

\* ------------------------------------------------------------ basic values
None == <<>>

Some(v) == <<v>>

IsSome(o) == o # <<>>

Val(o) == o[1]

OrElse(o, d) == IF o = <<>> THEN d ELSE o[1]

Max(a, b) == IF a >= b THEN a ELSE b

Min(a, b) == IF a <= b THEN a ELSE b

Abs(x) == IF x < 0 THEN 0 - x ELSE x

\* x * pct / 100 on the exact inputs of the model
Pct(x, pct) == (x * pct) \div 100

\* timedelta.days: whole days, rounded towards minus infinity
Days(cd) == cd \div 100

\* round(x, 1): to a tenth of a day, ties to the even tenth
Round1(cd) ==
    LET q == cd \div 10
        r == cd - 10 * q
    IN  IF r < 5 THEN 10 * q
        ELSE IF r > 5 THEN 10 * (q + 1)
        ELSE IF q % 2 = 0 THEN 10 * q ELSE 10 * (q + 1)

EmptyMap == [k \in {} |-> 0]

MapPut(m, k, v) == [x \in (DOMAIN m) \cup {k} |-> IF x = k THEN v ELSE m[x]]

MapHas(m, k) == k \in DOMAIN m

Absent == [present |-> FALSE, entries |-> EmptyMap]

Present(m) == [present |-> TRUE, entries |-> m]

\* ------------------------------------------------------ ContributionTracker
Cause(kind, ref, num, parts) == [kind |-> kind, ref |-> ref, num |-> num, parts |-> parts]

\* ContributionTracker.add: entries under a tenth of a day are dropped
TrackerAdd(tracker, cause, days) ==
    IF Abs(days) >= CONTRIB_MIN THEN Append(tracker, [cause |-> cause, days |-> days])
    ELSE tracker

\* stable insertion of c into a list sorted by descending |days|
RECURSIVE InsertSorted(_, _)
InsertSorted(sorted, c) ==
    IF sorted = <<>> THEN <<c>>
    ELSE IF Abs(Head(sorted).days) >= Abs(c.days)
         THEN <<Head(sorted)>> \o InsertSorted(Tail(sorted), c)
         ELSE <<c>> \o sorted

RECURSIVE SortedByMagnitude(_)
SortedByMagnitude(contribs) ==
    IF contribs = <<>> THEN <<>>
    ELSE InsertSorted(SortedByMagnitude(SubSeq(contribs, 1, Len(contribs) - 1)),
                      contribs[Len(contribs)])

\* ContributionTracker.get_sorted
RoundedDays(contribs) ==
    [i \in 1..Len(contribs) |-> [cause |-> contribs[i].cause, days |-> Round1(contribs[i].days)]]

get_sorted(tracker) == RoundedDays(SortedByMagnitude(tracker))

\* --------------------------------------------------------------- state access
RECURSIVE FilterSeq(_, _, _)
FilterSeq(seq, keep, i) ==
    IF i > Len(seq) THEN <<>>
    ELSE (IF i \in keep THEN <<seq[i]>> ELSE <<>>) \o FilterSeq(seq, keep, i + 1)

RECURSIVE SumSeq(_, _)
SumSeq(seq, i) == IF i > Len(seq) THEN 0 ELSE seq[i] + SumSeq(seq, i + 1)

\* a lookup that falls back to the first milestone when the id is unknown
get_milestone_or_first(milestone_id, state) ==
    LET hits == {i \in 1..Len(state.milestones) : state.milestones[i].id = milestone_id}
    IN  IF state.milestones = <<>> THEN None
        ELSE IF hits = {} THEN Some(state.milestones[1])
        ELSE Some(state.milestones[CHOOSE i \in hits : \A j \in hits : i <= j])

\* _get_milestone: the first milestone with the id, None when there is none
get_milestone(milestone_id, state) ==
    LET hits == {i \in 1..Len(state.milestones) : state.milestones[i].id = milestone_id}
    IN  IF hits = {} THEN None
        ELSE Some(state.milestones[CHOOSE i \in hits : \A j \in hits : i <= j])

get_work_items_for_milestone(milestone_id, state) ==
    FilterSeq(state.work_items,
              {i \in 1..Len(state.work_items) :
                  state.work_items[i].milestone_id = Some(milestone_id)}, 1)

get_risks_for_milestone(milestone_id, state) ==
    LET ids == {wi.id : wi \in {state.work_items[i] : i \in
                   {j \in 1..Len(state.work_items) :
                       state.work_items[j].milestone_id = Some(milestone_id)}}}
        Affects(r) == \/ r.milestone_id = Some(milestone_id)
                      \/ \E k \in 1..Len(r.affected_items) : r.affected_items[k] \in ids
    IN  FilterSeq(state.risks, {i \in 1..Len(state.risks) : Affects(state.risks[i])}, 1)

\* sum of estimated_days over the milestone's work items that are not completed
RemainingEffort(milestone_id, state) ==
    LET wis == get_work_items_for_milestone(milestone_id, state)
    IN  SumSeq([i \in 1..Len(wis) |->
                   IF wis[i].status # "completed" THEN OrElse(wis[i].estimated_days, 0)
                   ELSE 0], 1)

\* ---------------------------------------------------- scenario perturbations
\* A perturbation works on a shallow copy of the caller's dict: a key it adds
\* exists in the copy only, a nested dict that was already there is the
\* caller's own object.  Each operator returns the copy (state), the caller's
\* snapshot as the call leaves it (caller), the tracker and the exception.
Outcome(state, caller, tracker, err) ==
    [state |-> state, caller |-> caller, tracker |-> tracker, err |-> err, divisors |-> {}]

\* remaining_effort * (1 / multiplier - 1), multiplier in percent and not 0
CapacityTerm(effort, multiplier) ==
    IF multiplier > 0 THEN (effort * (100 - multiplier)) \div multiplier
    ELSE 0 - ((effort * (100 - multiplier)) \div (0 - multiplier))

perturb_dependency_delay(state, caller, params, tracker) ==
    LET work_item_id == params.work_item_id
        delay_days == OrElse(params.delay_days, 0)
    IN  IF IsSome(work_item_id) /\ delay_days > 0
        THEN LET put(m) == Present(MapPut(m.entries, Val(work_item_id), delay_days))
             IN  Outcome([state EXCEPT !.scenario_delays = put(@)],
                         IF caller.scenario_delays.present
                         THEN [caller EXCEPT !.scenario_delays = put(@)] ELSE caller,
                         tracker, "none")
        ELSE Outcome(state, caller, tracker, "none")

perturb_scope_change(state, caller, milestone_id, params, tracker) ==
    LET effort_delta_days == OrElse(params.effort_delta_days, 0)
    IN  IF effort_delta_days # 0
        THEN LET put(m) == Present(MapPut(m.entries, milestone_id, effort_delta_days))
                 action == IF effort_delta_days > 0 THEN "add" ELSE "remove"
             IN  Outcome([state EXCEPT !.scenario_scope_changes = put(@)],
                         IF caller.scenario_scope_changes.present
                         THEN [caller EXCEPT !.scenario_scope_changes = put(@)] ELSE caller,
                         TrackerAdd(tracker,
                                    Cause("Scenario scope", action, Abs(effort_delta_days), <<>>),
                                    Abs(effort_delta_days)),
                         "none")
        ELSE Outcome(state, caller, tracker, "none")

perturb_capacity_change(state, caller, milestone_id, params, tracker) ==
    LET capacity_multiplier == OrElse(params.capacity_multiplier, 100)
    IN  IF capacity_multiplier # 100
        THEN LET put(m) == Present(MapPut(m.entries, milestone_id, capacity_multiplier))
                 state2 == [state EXCEPT !.scenario_capacity_changes = put(@)]
                 caller2 == IF caller.scenario_capacity_changes.present
                            THEN [caller EXCEPT !.scenario_capacity_changes = put(@)]
                            ELSE caller
                 total_remaining_days == RemainingEffort(milestone_id, state2)
             IN  IF capacity_multiplier < 100
                 THEN [(IF capacity_multiplier = 0
                        THEN Outcome(state2, caller2, tracker, "ZeroDivisionError")
                        ELSE Outcome(state2, caller2,
                                     TrackerAdd(tracker,
                                         Cause("Scenario capacity reduction", milestone_id,
                                               100 - capacity_multiplier, <<>>),
                                         CapacityTerm(total_remaining_days, capacity_multiplier)),
                                     "none"))
                       EXCEPT !.divisors = {capacity_multiplier}]
                 ELSE Outcome(state2, caller2, tracker, "none")
        ELSE Outcome(state, caller, tracker, "none")

apply_scenario_perturbations(state, caller, milestone_id, scenario, tracker) ==
    IF scenario = None THEN Outcome(state, caller, tracker, "none")
    ELSE LET sc == Val(scenario)
         IN  CASE sc.type = "dependency_delay" ->
                     perturb_dependency_delay(state, caller, sc.params, tracker)
               [] sc.type = "scope_change" ->
                     perturb_scope_change(state, caller, milestone_id, sc.params, tracker)
               [] sc.type = "capacity_change" ->
                     perturb_capacity_change(state, caller, milestone_id, sc.params, tracker)
               [] OTHER -> Outcome(state, caller, tracker, "none")

\* -------------------------------------------------- hypothetical mitigation
\* The risk list and each risk dict are copied one level deep; a
\* hypothetical_mitigation dict a risk already carries stays shared.
apply_hypothetical_mitigation(state, caller, mitigation, tracker) ==
    IF mitigation = None THEN Outcome(state, caller, tracker, "none")
    ELSE LET mit == Val(mitigation)
             reduction == mit.expected_impact_reduction_days
             truthy == IsSome(reduction) /\ Val(reduction) # 0
             hit(r) == r.id = mit.risk_id
             tagged(r) == [r EXCEPT !.hypothetical_mitigation =
                              Present(MapPut(@.entries, "impact_reduction_days", Val(reduction)))]
             copy(r) == IF ~hit(r) THEN r
                        ELSE IF truthy THEN tagged(r)
                        ELSE [r EXCEPT !.status = "mitigating"]
             shared(r) == IF hit(r) /\ truthy /\ r.hypothetical_mitigation.present
                          THEN tagged(r) ELSE r
         IN  Outcome([state EXCEPT !.risks = [i \in 1..Len(state.risks) |-> copy(state.risks[i])]],
                     [caller EXCEPT !.risks = [i \in 1..Len(caller.risks) |-> shared(caller.risks[i])]],
                     tracker, "none")

\* ------------------------------------------------------- dependency delays
\* incoming_map: the non-empty dependency ids of each work item, in list order
IncomingOf(wi) ==
    FilterSeq(wi.dependencies, {k \in 1..Len(wi.dependencies) : wi.dependencies[k] # ""}, 1)

\* wi_lookup: id -> work item, a later item with the same id replaces an earlier
WiLookup(state) ==
    LET wis == state.work_items
        last(id) == CHOOSE i \in 1..Len(wis) :
                        wis[i].id = id /\ \A j \in 1..Len(wis) : wis[j].id = id => j <= i
    IN  [id \in {wis[i].id : i \in 1..Len(wis)} |-> wis[last(id)]]

\* dep_props: (from_id, to_id) -> Dependency object, the last one of a key wins
DepProps(state) ==
    LET deps == state.dependencies
        key(d) == <<d.from_id, d.to_id>>
        last(k) == CHOOSE i \in 1..Len(deps) :
                       key(deps[i]) = k /\ \A j \in 1..Len(deps) : key(deps[j]) = k => j <= i
    IN  [k \in {key(deps[i]) : i \in 1..Len(deps)} |-> deps[last(k)]]

CriticalityMultiplier(crit) ==
    CASE crit = "low" -> 50
      [] crit = "medium" -> 100
      [] crit = "high" -> 150
      [] crit = "critical" -> 200
      [] OTHER -> 100

Env(milestone_id, state, external_team_history, current_date) ==
    [milestone_id |-> milestone_id,
     wi_lookup |-> WiLookup(state),
     dep_props |-> DepProps(state),
     scenario_delays |-> state.scenario_delays.entries,
     history |-> OrElse(external_team_history, EmptyMap),
     current_date |-> current_date]

\* _calculate_realistic_delay, step 1: the upstream item's progress
ProgressDelay(dep_wi, dep_properties) ==
    IF IsSome(dep_wi.remaining_days) /\ Val(dep_wi.remaining_days) > 0
    THEN Max(0, Max(0, Pct(Val(dep_wi.remaining_days),
                           IF IsSome(dep_properties)
                           THEN CriticalityMultiplier(OrElse(Val(dep_properties).criticality, "medium"))
                           ELSE 100)
                       - (IF IsSome(dep_properties)
                          THEN OrElse(Val(dep_properties).slack_days, 0) ELSE 0)))
    ELSE IF IsSome(dep_wi.completion_percentage)
    THEN Max(0, Pct(Pct(OrElse(dep_wi.estimated_days, DEFAULT_ESTIMATE),
                        100 - Val(dep_wi.completion_percentage)), 70))
    ELSE 0

\* step 3: expected completion against the start date, or against now
DateBasedDelay(env, wi, dep_wi) ==
    IF IsSome(dep_wi.expected_completion_date)
    THEN 100 * Days(Val(dep_wi.expected_completion_date) - OrElse(wi.start_date, env.current_date))
    ELSE 0

DateStep(date_based, delay) ==
    IF date_based > 0 /\ date_based > delay THEN date_based ELSE delay

\* step 4: historical slip of the external team
HistoryStep(env, dep_wi, delay) ==
    IF IsSome(dep_wi.external_team_id) /\ MapHas(env.history, Val(dep_wi.external_team_id))
    THEN Max(delay,
             Pct(Pct(OrElse(dep_wi.estimated_days, DEFAULT_ESTIMATE),
                     100 - env.history[Val(dep_wi.external_team_id)].reliability_score),
                 env.history[Val(dep_wi.external_team_id)].slip_probability))
    ELSE delay

\* step 5: status fallbacks
OtherMilestoneStep(env, dep_wi, delay) ==
    IF IsSome(dep_wi.milestone_id) /\ Val(dep_wi.milestone_id) # env.milestone_id
    THEN Max(delay, Pct(OrElse(dep_wi.estimated_days, DEFAULT_ESTIMATE),
                        100 - OrElse(dep_wi.confidence_level, DEFAULT_CONFIDENCE)))
    ELSE delay

BlockedStep(dep_wi, delay) ==
    IF dep_wi.status = "blocked" /\ BLOCKED_DELAY > delay THEN BLOCKED_DELAY ELSE delay

InProgressStep(dep_wi, delay) ==
    IF dep_wi.status = "in_progress" /\ delay = 0 /\ OrElse(dep_wi.estimated_days, 0) > 0
    THEN Pct(Val(dep_wi.estimated_days), 50)
    ELSE delay

\* step 6: probability of the delay
ProbabilityStep(dep_properties, delay) ==
    IF IsSome(dep_properties) /\ IsSome(Val(dep_properties).probability_delay)
    THEN Pct(delay, Val(Val(dep_properties).probability_delay))
    ELSE delay

\* _calculate_realistic_delay: incremental delay of the edge wi -> dep_wi
calculate_realistic_delay(env, wi, dep_wi, dep_properties) ==
    IF dep_wi.status = "completed" THEN 0
    ELSE ProbabilityStep(dep_properties,
           InProgressStep(dep_wi,
             BlockedStep(dep_wi,
               OtherMilestoneStep(env, dep_wi,
                 HistoryStep(env, dep_wi,
                   DateStep(DateBasedDelay(env, wi, dep_wi),
                            ProgressDelay(dep_wi, dep_properties)))))))

\* own delay of a work item that is not short-circuited as completed
OwnDelay(env, wi) ==
    LET scen == IF MapHas(env.scenario_delays, wi.id)
                THEN Max(0, env.scenario_delays[wi.id]) ELSE 0
    IN  IF IsSome(wi.remaining_days) /\ Val(wi.remaining_days) > 0
        THEN Max(scen, Val(wi.remaining_days))
        ELSE IF IsSome(wi.completion_percentage)
        THEN Max(scen, Pct(OrElse(wi.estimated_days, 0), 100 - Val(wi.completion_percentage)))
        ELSE IF wi.status = "blocked" THEN Max(scen, BLOCKED_DELAY)
        ELSE IF wi.status = "in_progress" /\ OrElse(wi.estimated_days, 0) > 0
        THEN Max(scen, Pct(Val(wi.estimated_days), 50))
        ELSE scen

Resolved(val, memo, err) == [val |-> val, memo |-> memo, err |-> err]

\* the completion check made before the scenario override was looked at
CompletedIgnoringOverride(env, wi) == wi.status = "completed"

\* a completed item resolves to 0 at once unless a scenario delay names it
CompletedWithoutOverride(env, wi) ==
    wi.status = "completed" /\ ~MapHas(env.scenario_delays, wi.id)

\* the edge (wi.id, upstream id) of dep_props, None when there is none
EdgeProperties(env, wi, upstream_id) ==
    IF MapHas(env.dep_props, <<wi.id, upstream_id>>)
    THEN Some(env.dep_props[<<wi.id, upstream_id>>]) ELSE None

\* memo[wi_id] = total_delay; return total_delay
StoreResolved(wi_id, memo, total_delay) ==
    Resolved(total_delay, MapPut(memo, wi_id, total_delay), "none")

\* _delay_for_work_item with its memo table threaded through the recursion.
\* depth counts the nested calls; the interpreter raises RecursionError when
\* the nesting passes its limit.
RECURSIVE delay_for_work_item(_, _, _, _)
RECURSIVE ResolveItem(_, _, _, _)
RECURSIVE UpstreamLoop(_, _, _, _, _, _, _)
RECURSIVE UpstreamStep(_, _, _, _, _, _, _, _)
RECURSIVE StoreTotal(_, _, _)
delay_for_work_item(env, wi_id, memo, depth) ==
    IF depth > RecursionLimit THEN Resolved(0, memo, "RecursionError")
    ELSE IF MapHas(memo, wi_id) THEN Resolved(memo[wi_id], memo, "none")
    ELSE IF ~MapHas(env.wi_lookup, wi_id) THEN StoreResolved(wi_id, memo, 0)
    ELSE ResolveItem(env, env.wi_lookup[wi_id], memo, depth)

\* the body of _delay_for_work_item for an item that is in wi_lookup
ResolveItem(env, wi, memo, depth) ==
    IF CompletedWithoutOverride(env, wi) THEN StoreResolved(wi.id, memo, 0)
    ELSE StoreTotal(env, wi, UpstreamLoop(env, wi, IncomingOf(wi), 1, memo, 0, depth))

\* total_delay = max(own_delay, max_upstream_delay), once the loop over the
\* upstream items has ended
StoreTotal(env, wi, up) ==
    IF up.err # "none" THEN up
    ELSE StoreResolved(wi.id, up.memo, Max(OwnDelay(env, wi), up.val))

\* the loop over incoming_map[wi_id]
UpstreamLoop(env, wi, ups, i, memo, max_upstream_delay, depth) ==
    IF i > Len(ups) THEN Resolved(max_upstream_delay, memo, "none")
    ELSE IF ~MapHas(env.wi_lookup, ups[i])
    THEN UpstreamLoop(env, wi, ups, i + 1, memo, max_upstream_delay, depth)
    ELSE UpstreamStep(env, wi, ups, i, max_upstream_delay, depth,
                      calculate_realistic_delay(env, wi, env.wi_lookup[ups[i]],
                                                EdgeProperties(env, wi, ups[i])),
                      delay_for_work_item(env, ups[i], memo, depth + 1))

\* one turn of the loop: upstream_total = the upstream item's delay + edge_delay
UpstreamStep(env, wi, ups, i, max_upstream_delay, depth, edge_delay, r) ==
    IF r.err # "none" THEN r
    ELSE UpstreamLoop(env, wi, ups, i + 1, r.memo,
                      Max(max_upstream_delay, r.val + edge_delay), depth)

\* accumulator of the evaluation loop over the milestone's work items
DepAcc(memo, tracker, total, ext, err) ==
    [memo |-> memo, tracker |-> tracker, total |-> total, ext |-> ext, err |-> err]

DependencyCause(env, upstream_wi) ==
    IF MapHas(env.scenario_delays, upstream_wi.id)
    THEN Cause("Scenario delay", OrElse(upstream_wi.title, upstream_wi.id),
               env.scenario_delays[upstream_wi.id], <<>>)
    ELSE Cause("Dependency", OrElse(upstream_wi.title, upstream_wi.id),
               IF IsSome(upstream_wi.remaining_days) /\ Val(upstream_wi.remaining_days) # 0
               THEN Val(upstream_wi.remaining_days) ELSE 0,
               (IF IsSome(upstream_wi.remaining_days) /\ Val(upstream_wi.remaining_days) # 0
                THEN <<"remaining">> ELSE <<>>)
               \o (IF IsSome(upstream_wi.external_team_id) THEN <<"external team">> ELSE <<>>)
               \o (IF upstream_wi.status = "blocked" THEN <<"blocked">> ELSE <<>>))

IsExternal(env, upstream_wi) ==
    IsSome(upstream_wi.milestone_id) /\ Val(upstream_wi.milestone_id) # env.milestone_id

\* the loop over the upstream items of one work item of the milestone
RECURSIVE EvaluateUpstreams(_, _, _, _, _, _)
RECURSIVE EvaluateStep(_, _, _, _, _, _, _, _)
EvaluateUpstreams(env, wi, ups, j, acc, wi_max_delay) ==
    IF j > Len(ups) THEN [acc EXCEPT !.total = Max(@, wi_max_delay)]
    ELSE IF ~MapHas(env.wi_lookup, ups[j])
    THEN EvaluateUpstreams(env, wi, ups, j + 1, acc, wi_max_delay)
    ELSE EvaluateStep(env, wi, ups, j, acc, wi_max_delay, env.wi_lookup[ups[j]],
                      delay_for_work_item(env, ups[j], acc.memo, 1))

EvaluateStep(env, wi, ups, j, acc, wi_max_delay, upstream_wi, r) ==
    IF r.err # "none" THEN [acc EXCEPT !.err = r.err]
    ELSE EvaluateUpstreams(env, wi, ups, j + 1,
             DepAcc(r.memo,
                    IF r.val > DEP_TRACK_MIN
                    THEN TrackerAdd(acc.tracker, DependencyCause(env, upstream_wi), r.val)
                    ELSE acc.tracker,
                    acc.total,
                    acc.ext + (IF IsExternal(env, upstream_wi) THEN 1 ELSE 0),
                    "none"),
             Max(wi_max_delay, r.val))

RECURSIVE EvaluateWorkItems(_, _, _, _)
EvaluateWorkItems(env, work_items, i, acc) ==
    IF i > Len(work_items) \/ acc.err # "none" THEN acc
    ELSE IF work_items[i].status = "completed"
    THEN EvaluateWorkItems(env, work_items, i + 1, acc)
    ELSE EvaluateWorkItems(env, work_items, i + 1,
             EvaluateUpstreams(env, work_items[i], IncomingOf(work_items[i]), 1, acc, 0))

\* _calculate_dependency_delays: (total_delay, external_dep_count), with a
\* memo table that starts empty in every call
calculate_dependency_delays(milestone, state, tracker, external_team_history, current_date) ==
    EvaluateWorkItems(Env(milestone.id, state, external_team_history, current_date),
                      get_work_items_for_milestone(milestone.id, state), 1,
                      DepAcc(EmptyMap, tracker, 0, 0, "none"))

\* ----------------------------------------------------------------- risk delays
ImpactDays(risk) ==
    LET given == IF IsSome(risk.impact_days) /\ Val(risk.impact_days) # 0
                 THEN Val(risk.impact_days) ELSE DEFAULT_IMPACT
    IN  IF risk.hypothetical_mitigation.present
        THEN Max(0, given - (IF MapHas(risk.hypothetical_mitigation.entries, "impact_reduction_days")
                             THEN risk.hypothetical_mitigation.entries["impact_reduction_days"]
                             ELSE 0))
        ELSE given

\* a policy table that discounts a materialised risk by its probability
ProbabilityWeightedRiskDelay(status, impact_days, probability) ==
    CASE status = "materialised" -> Pct(impact_days, probability)
      [] status = "open" -> Pct(Pct(impact_days, probability), OPEN_FACTOR)
      [] status = "mitigating" -> Pct(impact_days, MITIGATING_FACTOR)
      [] OTHER -> 0

\* the delay of one risk before the cap, by status
UncappedRiskDelay(status, impact_days, probability) ==
    CASE status = "materialised" -> impact_days
      [] status = "open" -> Pct(Pct(impact_days, probability), OPEN_FACTOR)
      [] status = "mitigating" -> Pct(impact_days, MITIGATING_FACTOR)
      [] OTHER -> 0

\* the delay of one risk as it would be if the cap were left out
RiskDelayWithoutCap(status, impact_days, probability) ==
    UncappedRiskDelay(status, impact_days, probability)

\* the delay one risk adds to the milestone's risk total
RiskDelay(status, impact_days, probability) ==
    Min(UncappedRiskDelay(status, impact_days, probability), RISK_CAP)

\* the tracker after one risk: the entry is written before the cap is applied
RiskTrack(tracker, risk) ==
    LET probability == OrElse(risk.probability, DEFAULT_PROBABILITY)
        delay == UncappedRiskDelay(risk.status, ImpactDays(risk), probability)
        title == OrElse(risk.title, risk.id)
    IN  CASE risk.status = "materialised" ->
                 TrackerAdd(tracker, Cause("Materialised risk", title, 0, <<>>), delay)
          [] risk.status = "open" /\ delay >= RISK_TRACK_MIN ->
                 TrackerAdd(tracker, Cause("Open risk", title, probability, <<>>), delay)
          [] risk.status = "mitigating" /\ delay >= RISK_TRACK_MIN ->
                 TrackerAdd(tracker, Cause("Mitigating risk", title, 0, <<>>), delay)
          [] OTHER -> tracker

RECURSIVE RiskLoop(_, _, _, _)
RiskLoop(risks, i, total_delay, tracker) ==
    IF i > Len(risks) THEN [total |-> total_delay, tracker |-> tracker]
    ELSE RiskLoop(risks, i + 1,
                  total_delay + RiskDelay(risks[i].status, ImpactDays(risks[i]),
                                          OrElse(risks[i].probability, DEFAULT_PROBABILITY)),
                  RiskTrack(tracker, risks[i]))

calculate_risk_delays(milestone_id, state, tracker) ==
    RiskLoop(get_risks_for_milestone(milestone_id, state), 1, 0, tracker)

\* ------------------------------------------------------------ scope and capacity
RECURSIVE DecisionLoop(_, _, _, _)
DecisionLoop(decisions, i, total_delay, tracker) ==
    IF i > Len(decisions) THEN [total |-> total_delay, tracker |-> tracker]
    ELSE LET d == decisions[i]
             effort_delta == OrElse(d.effort_delta_days, 0)
         IN  IF d.decision_type = "change_scope" /\ d.status = "approved" /\ effort_delta > 0
             THEN DecisionLoop(decisions, i + 1, total_delay + Pct(effort_delta, SCOPE_FACTOR),
                               TrackerAdd(tracker, Cause("Recent scope change", d.reason, 0, <<>>),
                                          Pct(effort_delta, SCOPE_FACTOR)))
             ELSE DecisionLoop(decisions, i + 1, total_delay, tracker)

calculate_scope_change_delays(milestone_id, state, tracker) ==
    LET changes == state.scenario_scope_changes.entries
        effort_delta == IF MapHas(changes, milestone_id) THEN changes[milestone_id] ELSE 0
        improvement == Min(0, Pct(effort_delta, SCOPE_FACTOR))
        first == IF effort_delta > 0
                 THEN [total |-> effort_delta,
                       tracker |-> TrackerAdd(tracker,
                           Cause("Scenario scope increase", milestone_id, effort_delta, <<>>),
                           effort_delta)]
                 ELSE IF effort_delta < 0
                 THEN [total |-> improvement,
                       tracker |-> TrackerAdd(tracker,
                           Cause("Scenario scope reduction", milestone_id, effort_delta, <<>>),
                           improvement)]
                 ELSE [total |-> 0, tracker |-> tracker]
    IN  DecisionLoop(state.decisions, 1, first.total, first.tracker)

\* _calculate_capacity_change_delay: remaining_effort * (1 / multiplier - 1)
calculate_capacity_change_delay(milestone_id, state, tracker) ==
    LET changes == state.scenario_capacity_changes.entries
        has == MapHas(changes, milestone_id)
        multiplier == IF has THEN changes[milestone_id] ELSE 100
        remaining_effort == RemainingEffort(milestone_id, state)
    IN  IF ~has \/ multiplier = 100 \/ remaining_effort <= 0
        THEN [total |-> 0, tracker |-> tracker, err |-> "none", divisors |-> {}]
        ELSE IF multiplier = 0
        THEN [total |-> 0, tracker |-> tracker, err |-> "ZeroDivisionError",
              divisors |-> {multiplier}]
        ELSE LET delta == CapacityTerm(remaining_effort, multiplier)
             IN  [total |-> delta,
                  tracker |-> TrackerAdd(tracker,
                                  Cause("Scenario capacity change", milestone_id, multiplier, <<>>),
                                  delta),
                  err |-> "none", divisors |-> {multiplier}]

\* ------------------------------------------------- data quality, buffer, confidence
\* dependencies of the milestone's work items on items of another milestone,
\* as _calculate_data_quality counts them
QualityExternalCount(milestone_id, state) ==
    LET wis == get_work_items_for_milestone(milestone_id, state)
        lookup == WiLookup(state)
        ext(id) == MapHas(lookup, id) /\ IsSome(lookup[id].milestone_id)
                   /\ Val(lookup[id].milestone_id) # milestone_id
    IN  SumSeq([i \in 1..Len(wis) |->
                   Cardinality({k \in 1..Len(wis[i].dependencies) : ext(wis[i].dependencies[k])})],
               1)

\* estimate_coverage is the fraction covered / total (1.0 for no work items)
calculate_data_quality(milestone_id, state) ==
    LET wis == get_work_items_for_milestone(milestone_id, state)
        total_items == Len(wis)
        with_estimates == Cardinality({i \in 1..Len(wis) : IsSome(wis[i].estimated_days)})
        covered == IF total_items = 0 THEN 1 ELSE with_estimates
        total == IF total_items = 0 THEN 1 ELSE total_items
    IN  [covered |-> covered, total |-> total,
         external_dep_count |-> QualityExternalCount(milestone_id, state),
         penalty |-> IF 100 * covered < 50 * total THEN 200
                     ELSE IF 100 * covered < 80 * total THEN 100 ELSE 0]

\* the buffer without its cap
uncapped_uncertainty_buffer(milestone_id, state, external_dep_count, data_quality, tracker) ==
    LET risks == get_risks_for_milestone(milestone_id, state)
        open_risks == {i \in 1..Len(risks) : risks[i].status \in {"open", "mitigating"}}
        buffer == BUFFER_BASE + Cardinality(open_risks) * BUFFER_PER_RISK
                  + external_dep_count * BUFFER_PER_EXTERNAL + data_quality.penalty
    IN  [buffer |-> buffer,
         tracker |-> TrackerAdd(tracker, Cause("Uncertainty buffer (P80)", "", 0, <<>>), buffer)]

calculate_uncertainty_buffer(milestone_id, state, external_dep_count, data_quality, tracker) ==
    LET risks == get_risks_for_milestone(milestone_id, state)
        open_risks == {i \in 1..Len(risks) : risks[i].status \in {"open", "mitigating"}}
        buffer == Min(BUFFER_BASE + Cardinality(open_risks) * BUFFER_PER_RISK
                      + external_dep_count * BUFFER_PER_EXTERNAL + data_quality.penalty,
                      BUFFER_CAP)
    IN  [buffer |-> buffer,
         tracker |-> IF buffer > 0
                     THEN TrackerAdd(tracker, Cause("Uncertainty buffer (P80)", "", 0, <<>>), buffer)
                     ELSE tracker]

confidence_level(data_quality) ==
    IF 100 * data_quality.covered >= 85 * data_quality.total
       /\ data_quality.external_dep_count <= 2
    THEN "MED" ELSE "LOW"

\* _build_explanation: the text, as the values it is formatted from
TopCauses(sorted) == SubSeq(sorted, 1, Min(TOP_N, Len(sorted)))

build_explanation(milestone, baseline_date, p50_date, p80_date, tracker, options, confidence, data_quality) ==
        [header |-> IF IsSome(options.scenario) THEN "Scenario forecast"
                    ELSE IF IsSome(options.hypothetical_mitigation)
                    THEN "Mitigation impact preview" ELSE "Baseline forecast",
         milestone_name |-> OrElse(milestone.name, milestone.id),
         scenario_type |-> IF IsSome(options.scenario) THEN Val(options.scenario).type ELSE "",
         baseline |-> Days(baseline_date),
         p50 |-> Days(p50_date),
         p80 |-> Days(p80_date),
         p50_delta |-> Days(p50_date - baseline_date),
         p80_delta |-> Days(p80_date - baseline_date),
         top |-> TopCauses(get_sorted(tracker)),
         confidence |-> confidence,
         coverage |-> (200 * data_quality.covered + data_quality.total)
                          \div (2 * data_quality.total)]

\* --------------------------------------------------------- forecastMilestone
\* What one call of forecastMilestone does: kind is "ok" or the exception it
\* raises, value the ForecastResult, caller the caller's snapshot after the
\* call, work the function's own copy of the state, internals the
\* intermediate values of the computation.
Raised(err, caller, work, divisors) ==
    [kind |-> err, value |-> None, caller |-> caller, work |-> work,
     internals |-> [divisors |-> divisors]]

NoOptions == [scenario |-> None, hypothetical_mitigation |-> None, external_team_history |-> None]

\* the ForecastResult and the intermediate values, once every term is known
Assemble(milestone, options, p, dep, risk, scope, cap, p50_date, data_quality, buf) ==
    [kind |-> "ok",
     value |-> Some(
        [p50_date |-> p50_date,
         p80_date |-> p50_date + buf.buffer,
         delta_p50_days |-> Days(p50_date - milestone.target_date),
         delta_p80_days |-> Days(p50_date + buf.buffer - milestone.target_date),
         confidence_level |-> confidence_level(data_quality),
         contribution_breakdown |-> get_sorted(buf.tracker),
         explanation |-> build_explanation(milestone, milestone.target_date, p50_date,
                             p50_date + buf.buffer, buf.tracker, options,
                             confidence_level(data_quality), data_quality)]),
     caller |-> p.caller,
     work |-> p.state,
     internals |->
        [divisors |-> p.divisors \cup cap.divisors,
         dep_delay_days |-> dep.total,
         external_dep_count |-> dep.ext,
         risk_delay_days |-> risk.total,
         scope_delay_days |-> scope.total,
         capacity_delay_days |-> cap.total,
         total_delay_days |-> dep.total + risk.total + scope.total + cap.total,
         uncertainty_buffer |-> buf.buffer,
         memo |-> dep.memo,
         contributions |-> buf.tracker]]

\* data quality, then the uncertainty buffer
WithQuality(milestone, options, p, dep, risk, scope, cap, data_quality) ==
    Assemble(milestone, options, p, dep, risk, scope, cap,
             milestone.target_date + dep.total + risk.total + scope.total + cap.total,
             data_quality,
             calculate_uncertainty_buffer(milestone.id, p.state, dep.ext, data_quality,
                                          cap.tracker))

WithCapacity(milestone, options, p, dep, risk, scope, cap) ==
    IF cap.err # "none" THEN Raised(cap.err, p.caller, p.state, p.divisors \cup cap.divisors)
    ELSE WithQuality(milestone, options, p, dep, risk, scope, cap,
                     calculate_data_quality(milestone.id, p.state))

WithScope(milestone, options, p, dep, risk, scope) ==
    WithCapacity(milestone, options, p, dep, risk, scope,
                 calculate_capacity_change_delay(milestone.id, p.state, scope.tracker))

WithRisks(milestone, options, p, dep, risk) ==
    WithScope(milestone, options, p, dep, risk,
              calculate_scope_change_delays(milestone.id, p.state, risk.tracker))

WithDependencies(milestone, options, p, dep) ==
    IF dep.err # "none" THEN Raised(dep.err, p.caller, p.state, p.divisors)
    ELSE WithRisks(milestone, options, p, dep,
                   calculate_risk_delays(milestone.id, p.state, dep.tracker))

\* the four delay terms on the perturbed copy; p carries the copy, the caller's
\* snapshot and the tracker
Aggregate(milestone, options, current_date, p) ==
    WithDependencies(milestone, options, p,
        calculate_dependency_delays(milestone, p.state, p.tracker,
                                    options.external_team_history, current_date))

\* the hypothetical mitigation, applied to the state the scenario left
Mitigated(milestone, options, current_date, p1) ==
    IF p1.err # "none" THEN Raised(p1.err, p1.caller, p1.state, p1.divisors)
    ELSE Aggregate(milestone, options, current_date,
             [apply_hypothetical_mitigation(p1.state, p1.caller,
                                            options.hypothetical_mitigation, p1.tracker)
                 EXCEPT !.divisors = p1.divisors])

Perturbed(milestone_id, snapshot, options, current_date, found) ==
    IF found = None THEN Raised("ValueError", snapshot, snapshot, {})
    ELSE Mitigated(Val(found), options, current_date,
             apply_scenario_perturbations(snapshot, snapshot, milestone_id,
                                          options.scenario, <<>>))

forecastMilestone(milestone_id, snapshot, options, current_date) ==
    Perturbed(milestone_id, snapshot, options, current_date,
              get_milestone(milestone_id, snapshot))

\* ----------------------------------------- forecast_with_scenario and friends
Scenario(type, params) == Some([type |-> type, params |-> params])

Params(work_item_id, delay_days, effort_delta_days, capacity_multiplier) ==
    [work_item_id |-> work_item_id, delay_days |-> delay_days,
     effort_delta_days |-> effort_delta_days, capacity_multiplier |-> capacity_multiplier]

NoParams == Params(None, None, None, None)

WithScenario(type, params) ==
    [scenario |-> Scenario(type, params), hypothetical_mitigation |-> None,
     external_team_history |-> None]

WithMitigation(risk_id, reduction) ==
    [scenario |-> None,
     hypothetical_mitigation |->
         Some([risk_id |-> risk_id, expected_impact_reduction_days |-> reduction]),
     external_team_history |-> None]

ScenarioOutcome(baseline, scenario) ==
    [kind |-> scenario.kind, baseline |-> baseline, scenario |-> scenario,
     caller |-> scenario.caller]

AfterBaseline(milestone_id, scenario_type, scenario_params, current_date, baseline) ==
    IF baseline.kind # "ok" THEN ScenarioOutcome(baseline, baseline)
    ELSE ScenarioOutcome(baseline,
             forecastMilestone(milestone_id, baseline.caller,
                               WithScenario(scenario_type, scenario_params), current_date))

\* forecast_with_scenario: the baseline call, then the scenario call on the
\* snapshot as the baseline call left it
forecast_with_scenario(milestone_id, snapshot, scenario_type, scenario_params, current_date) ==
    AfterBaseline(milestone_id, scenario_type, scenario_params, current_date,
                  forecastMilestone(milestone_id, snapshot, NoOptions, current_date))

MitigationOutcome(current, with_mitigation) ==
    [kind |-> with_mitigation.kind, current |-> current, with_mitigation |-> with_mitigation,
     improvement_days |-> IF with_mitigation.kind = "ok"
                          THEN Val(current.value).delta_p80_days
                               - Val(with_mitigation.value).delta_p80_days
                          ELSE 0,
     caller |-> with_mitigation.caller]

AfterCurrent(milestone_id, risk_id, reduction, current_date, current) ==
    IF current.kind # "ok" THEN MitigationOutcome(current, current)
    ELSE MitigationOutcome(current,
             forecastMilestone(milestone_id, current.caller,
                               WithMitigation(risk_id, reduction), current_date))

\* forecast_mitigation_impact: (current, with_mitigation, improvement_days)
forecast_mitigation_impact(milestone_id, snapshot, risk_id, reduction, current_date) ==
    AfterCurrent(milestone_id, risk_id, reduction, current_date,
                 forecastMilestone(milestone_id, snapshot, NoOptions, current_date))

\* ------------------------------------------------------- the forecast endpoints
ScenarioTypes == {"dependency_delay", "scope_change", "capacity_change"}

\* round(x) to whole days, ties to the even day
RoundDays(cd) ==
    LET q == cd \div 100
        r == cd - 100 * q
    IN  IF r < 50 THEN 100 * q
        ELSE IF r > 50 THEN 100 * (q + 1)
        ELSE IF q % 2 = 0 THEN 100 * q ELSE 100 * (q + 1)

\* _default_scenario_params: missing parameters get defaults, nothing is
\* range-checked
default_scenario_params(milestone_id, state, scenario_type, params) ==
    LET work_items == get_work_items_for_milestone(milestone_id, state)
        work_item_ids == {work_items[i].id : i \in 1..Len(work_items)}
        hits == {i \in 1..Len(state.dependencies) : state.dependencies[i].to_id \in work_item_ids}
        candidate == IF hits = {} THEN None
                     ELSE Some(state.dependencies[CHOOSE i \in hits : \A j \in hits : i <= j].from_id)
        remaining_effort == RemainingEffort(milestone_id, state)
        default_delta == IF remaining_effort # 0
                         THEN Max(100, RoundDays(remaining_effort \div 10)) ELSE 300
    IN  CASE scenario_type = "dependency_delay" ->
                 [params EXCEPT !.work_item_id = IF IsSome(@) THEN @ ELSE candidate,
                                !.delay_days = Some(OrElse(@, 300))]
          [] scenario_type = "scope_change" ->
                 [params EXCEPT !.effort_delta_days = Some(OrElse(@, default_delta))]
          [] scenario_type = "capacity_change" ->
                 [params EXCEPT !.capacity_multiplier = Some(OrElse(@, 85))]
          [] OTHER -> params

\* the status an endpoint answers with when the engine raises
StatusOf(kind) ==
    CASE kind = "ok" -> 200
      [] kind = "ValueError" -> 404
      [] OTHER -> 500

Response(status, body) == [kind |-> "response", status |-> status, body |-> body]

BaselineResponse(r) == Response(StatusOf(r.kind), r.value)

get_baseline_forecast(milestone_id, world, current_date) ==
    BaselineResponse(forecastMilestone(milestone_id, world, NoOptions, current_date))

ScenarioResponse(r) ==
    IF r.kind # "ok" THEN Response(StatusOf(r.kind), None)
    ELSE Response(200, Some(
            [baseline |-> Val(r.baseline.value),
             scenario |-> Val(r.scenario.value),
             impact_days |-> Val(r.scenario.value).delta_p80_days
                             - Val(r.baseline.value).delta_p80_days]))

get_scenario_forecast(milestone_id, scenario_type, request_params, world, current_date) ==
    IF scenario_type \notin ScenarioTypes THEN Response(400, None)
    ELSE ScenarioResponse(
             forecast_with_scenario(milestone_id, world, scenario_type,
                 default_scenario_params(milestone_id, world, scenario_type, request_params),
                 current_date))

PreviewResponse(r) ==
    IF r.kind # "ok" THEN Response(StatusOf(r.kind), None)
    ELSE Response(200, Some(
            [current |-> Val(r.current.value),
             with_mitigation |-> Val(r.with_mitigation.value),
             improvement_days |-> r.improvement_days,
             recommendation |-> IF r.improvement_days > 3 THEN "approve"
                                ELSE IF r.improvement_days > 1 THEN "evaluate"
                                ELSE "reject"]))

get_mitigation_preview(milestone_id, risk_id, reduction, world, current_date) ==
    PreviewResponse(forecast_mitigation_impact(milestone_id, world, risk_id, reduction,
                                               current_date))

SummaryResponse(milestone_id, r) ==
    IF r.kind # "ok" THEN Response(StatusOf(r.kind), None)
    ELSE Response(200, Some(
            [milestone_id |-> milestone_id,
             p50_date |-> Val(r.value).p50_date,
             p80_date |-> Val(r.value).p80_date,
             days_from_target |-> Val(r.value).delta_p80_days,
             status |-> IF Val(r.value).delta_p80_days > 7 THEN "at_risk" ELSE "on_track",
             top_contributors |-> SubSeq(Val(r.value).contribution_breakdown, 1,
                                         Min(3, Len(Val(r.value).contribution_breakdown))),
             confidence |-> Val(r.value).confidence_level]))

get_forecast_summary(milestone_id, world, current_date) ==
    SummaryResponse(milestone_id,
                    forecastMilestone(milestone_id, world, NoOptions, current_date))

\* ------------------------------------------------------------ bounded inputs
Statuses == {"not_started", "in_progress", "blocked", "completed"}

RiskStatuses == {"open", "accepted", "mitigating", "materialised", "closed"}

Probabilities == {0, 40, 100}

Impacts == {400, 2000}

WorkItem(id, status, milestone_id, progress, dependencies) ==
    [id |-> id, title |-> None, status |-> status, milestone_id |-> Some(milestone_id),
     estimated_days |-> progress.estimated_days,
     remaining_days |-> progress.remaining_days,
     completion_percentage |-> progress.completion_percentage,
     dependencies |-> dependencies,
     expected_completion_date |-> None, start_date |-> None,
     external_team_id |-> None, confidence_level |-> None]

Progress(estimated_days, remaining_days, completion_percentage) ==
    [estimated_days |-> estimated_days, remaining_days |-> remaining_days,
     completion_percentage |-> completion_percentage]

\* estimate only; remaining effort tracked; completion percentage tracked; no data
Profiles == {Progress(Some(400), None, None), Progress(Some(500), Some(300), None),
             Progress(Some(400), None, Some(50)), Progress(None, None, None)}

\* dependency lists of (w1, w2, w3): none, chain, fan-in, triangle, a
\* two-item cycle, a self-dependency, a chain with an unknown id
Graphs == {<< <<>>, <<>>, <<>> >>,
           << <<>>, <<"w1">>, <<"w2">> >>,
           << <<>>, <<>>, <<"w1", "w2">> >>,
           << <<>>, <<"w1">>, <<"w1", "w2">> >>,
           << <<"w2">>, <<"w1">>, <<"w2">> >>,
           << <<>>, <<"w2">>, <<"w2">> >>,
           << <<>>, <<"w9", "", "w1">>, <<"w2">> >>}

Risk(id, status, probability, impact_days, milestone_id, affected_items, mitigation) ==
    [id |-> id, title |-> None, status |-> status, probability |-> probability,
     impact_days |-> impact_days, milestone_id |-> milestone_id,
     affected_items |-> affected_items, hypothetical_mitigation |-> mitigation]

Decision(decision_type, status, effort_delta_days) ==
    [decision_type |-> decision_type, status |-> status,
     effort_delta_days |-> effort_delta_days, reason |-> "scope change"]

Dependency(from_id, to_id, criticality, slack_days, probability_delay) ==
    [from_id |-> from_id, to_id |-> to_id, criticality |-> criticality,
     slack_days |-> slack_days, probability_delay |-> probability_delay]

Snapshot(work_items, dependencies, risks, decisions) ==
    [milestones |-> << [id |-> "m1", name |-> None, target_date |-> 3000] >>,
     work_items |-> work_items, dependencies |-> dependencies,
     risks |-> risks, decisions |-> decisions,
     scenario_delays |-> Absent, scenario_scope_changes |-> Absent,
     scenario_capacity_changes |-> Absent]

\* the chain of test_dependency_delay_fix.py: w1 belongs to another milestone
ChainItems(w1) ==
    << w1,
       WorkItem("w2", "not_started", "m1", Progress(Some(400), None, None), <<"w1">>),
       WorkItem("w3", "not_started", "m1", Progress(Some(300), None, None), <<"w2">>) >>

Upstream == WorkItem("w1", "in_progress", "m2", Progress(Some(500), Some(300), None), <<>>)

\* snapshots that vary the dependency graph, and the status and progress of
\* the upstream item w1 and of the middle item w2
GraphItems(g, s1, p1, s2) ==
    << WorkItem("w1", s1, "m2", p1, g[1]),
       WorkItem("w2", s2, "m1", Progress(Some(400), None, None), g[2]),
       WorkItem("w3", "not_started", "m1", Progress(Some(300), None, None), g[3]) >>

GraphSnapshots ==
    {Snapshot(GraphItems(g, s1, Progress(Some(500), Some(300), None), "not_started"),
              <<>>, <<>>, <<>>) : g \in Graphs, s1 \in Statuses}
    \cup {Snapshot(GraphItems(<< <<>>, <<"w1">>, <<"w2">> >>, s1, p1, "not_started"),
                   <<>>, <<>>, <<>>) : s1 \in Statuses, p1 \in Profiles}
    \cup {Snapshot(GraphItems(g, "in_progress", Progress(Some(500), Some(300), None), "completed"),
                   <<>>, <<>>, <<>>) : g \in Graphs}

\* snapshots that vary dates, the external team and the Dependency objects
EdgeSnapshots ==
    {Snapshot(<< [Upstream EXCEPT !.expected_completion_date = e, !.external_team_id = t],
                 [WorkItem("w2", "not_started", "m1", Progress(Some(400), None, None), <<"w1">>)
                     EXCEPT !.start_date = sd],
                 WorkItem("w3", "not_started", "m1", Progress(None, None, None), <<"w2">>) >>,
              deps, <<>>, <<>>) :
        e \in {None, Some(500)}, t \in {None, Some("teamX")}, sd \in {None, Some(200)},
        deps \in {<<>>,
                  << Dependency("w2", "w1", Some("high"), Some(100), None) >>,
                  << Dependency("w2", "w1", None, None, Some(50)),
                     Dependency("w1", "w2", None, None, None) >>}}

\* risk lists: one risk of every status, probability and impact; risks linked
\* through a work item, unlinked, without impact or probability, or already
\* carrying a hypothetical_mitigation dict; several open risks
RiskLists ==
    {<< Risk("r1", st, Some(p), Some(i), Some("m1"), <<>>, Absent) >> :
        st \in RiskStatuses, p \in Probabilities, i \in Impacts}
    \cup {<< Risk("r1", "open", None, None, None, <<"w3">>, Absent) >>,
          << Risk("r1", "materialised", Some(100), Some(400), None, <<"w1">>, Absent),
             Risk("r2", "mitigating", Some(50), Some(400), Some("m1"), <<>>, Absent) >>,
          << Risk("r1", "materialised", Some(100), Some(400), Some("m1"), <<"w2", "w3">>, Absent),
             Risk("r2", "open", Some(100), Some(400), None, <<"w9">>, Absent) >>}
    \cup {<< Risk("r1", st, Some(50), Some(400), Some("m1"), <<>>, Present(m)) >> :
        st \in {"open", "materialised"},
        m \in {EmptyMap, MapPut(EmptyMap, "impact_reduction_days", 200)}}
    \cup {[i \in 1..n |-> Risk("r1", "open", Some(50), Some(400), Some("m1"), <<>>, Absent)] :
        n \in 2..MaxRisks}

RiskSnapshots == {Snapshot(ChainItems(Upstream), <<>>, rs, <<>>) : rs \in RiskLists}

DecisionSnapshots ==
    {Snapshot(ChainItems(Upstream), <<>>, <<>>, ds) :
        ds \in {<< Decision("change_scope", "approved", Some(500)) >>,
                << Decision("change_scope", "pending", Some(500)) >>,
                << Decision("change_scope", "approved", Some(0 - 300)),
                   Decision("change_capacity", "approved", Some(500)) >>}}

\* snapshots in which a scenario dict is already there, still empty
TaggedSnapshots ==
    {[Snapshot(ChainItems(Upstream), <<>>, <<>>, <<>>) EXCEPT !.scenario_delays = Present(EmptyMap)],
     [Snapshot(ChainItems(Upstream), <<>>, <<>>, <<>>)
         EXCEPT !.scenario_scope_changes = Present(EmptyMap)],
     [Snapshot(ChainItems(Upstream), <<>>, <<>>, <<>>)
         EXCEPT !.scenario_capacity_changes = Present(EmptyMap)]}

Snapshots ==
    GraphSnapshots \cup EdgeSnapshots \cup RiskSnapshots \cup DecisionSnapshots
    \cup TaggedSnapshots

TeamHistory ==
    Some(MapPut(EmptyMap, "teamX", [reliability_score |-> 50, slip_probability |-> 100]))

DelayScenario(w, d) ==
    WithScenario("dependency_delay", [NoParams EXCEPT !.work_item_id = Some(w),
                                                      !.delay_days = Some(d)])

ScopeScenario(e) == WithScenario("scope_change", [NoParams EXCEPT !.effort_delta_days = Some(e)])

CapacityScenario(m) ==
    WithScenario("capacity_change", [NoParams EXCEPT !.capacity_multiplier = Some(m)])

DelayValues == {0, 200, 700}

Multipliers == {0 - 50, 0, 50, 200}

\* the direct calls of forecastMilestone: (milestone_id, options)
Calls ==
    {<<"m1", NoOptions>>, <<"m1", [NoOptions EXCEPT !.external_team_history = TeamHistory]>>,
     <<"m9", NoOptions>>, <<"m9", ScopeScenario(800)>>, <<"m1", DelayScenario("w2", 700)>>}
    \cup {<<"m1", DelayScenario("w1", d)>> : d \in DelayValues}
    \cup {<<"m1", ScopeScenario(e)>> : e \in {0 - 500, 800}}
    \cup {<<"m1", CapacityScenario(m)>> : m \in Multipliers}
    \cup {<<"m1", WithMitigation("r1", r)>> : r \in {None, Some(200)}}

\* the scenario requests to the endpoint: (milestone_id, scenario_type, params)
ScenarioRequests ==
    {<<"m1", t, NoParams>> : t \in ScenarioTypes \cup {"bogus"}}
    \cup {<<"m9", "scope_change", NoParams>>, <<"m9", "bogus", NoParams>>,
          <<"m1", "dependency_delay",
            [NoParams EXCEPT !.work_item_id = Some("w1"), !.delay_days = Some(700)]>>,
          <<"m1", "capacity_change", [NoParams EXCEPT !.capacity_multiplier = Some(0)]>>}

\* the mitigation preview requests: (milestone_id, risk_id, reduction)
PreviewRequests ==
    {<<"m1", "r1", None>>, <<"m1", "r1", Some(200)>>, <<"m1", "r1", Some(0)>>,
     <<"m9", "r1", None>>}

MilestoneIds == {"m1", "m9"}

\* ============================================ Decision-Risk Engine v0
\* backend/app/engine/decision_risk_engine.py.  Dates are whole days since
\* the epoch of the clock; date.today() is the day of now.  A date held as
\* text is <<"iso", day>> when datetime.fromisoformat parses it and
\* <<"text", s>> when it does not; a date object is <<"date", day>>.
STUB_P50_DELTA == 7
STUB_P80_DELTA == 14
HIGH_SEVERITY_ABOVE == 14
MATERIALISED_NEXT_DAYS == 1
REVIEW_INTERVAL_DAYS == 7
FALLBACK_BOUNDARY_DAYS == 30
FALLBACK_DUE_DAYS == 14

EventTypes ==
    {"dependency_blocked", "dependency_unblocked", "dependency_unavailable",
     "dependency_available", "risk_created", "risk_updated", "risk_acceptance_expired",
     "risk_materialised", "decision_created", "decision_approved", "decision_superseded",
     "change_created", "change_approved", "change_rejected", "forecast_updated",
     "forecast_threshold_breached"}

Event(event_type, dependency_id, risk_id, risk_status, decision_id, change_id) ==
    [event_id |-> "evt_001", event_type |-> event_type, dependency_id |-> dependency_id,
     risk_id |-> risk_id, risk_status |-> risk_status, decision_id |-> decision_id,
     change_id |-> change_id]

Command(command_id, command_type, target_id, rule_name, payload, priority) ==
    [command_id |-> command_id, command_type |-> command_type, target_id |-> target_id,
     rule_name |-> rule_name, payload |-> payload, priority |-> priority]

CommandId(event, suffix) == ("cmd_" \o event.event_id) \o suffix

\* date.today()
Today(clock) == Days(clock)

IsoFormat(day) == <<"iso", day>>

\* a str or None that Python takes as true
Truthy(o) == o # None /\ Val(o) # ""

\* dict.get(key) for an Optional key: None when the key is None or missing
DictGet(dict, key) ==
    IF key # None /\ Val(key) \in DOMAIN dict THEN Some(dict[Val(key)]) ELSE None

\* simulate_ripple_stub: the deltas by event type
simulate_ripple_stub(event) ==
    IF event.event_type \in {"dependency_blocked", "dependency_unavailable"}
    THEN [delta_p50_days |-> STUB_P50_DELTA, delta_p80_days |-> STUB_P80_DELTA,
          confidence |-> "LOW", method |-> "heuristic_stub"]
    ELSE [delta_p50_days |-> 0, delta_p80_days |-> 0,
          confidence |-> "LOW", method |-> "heuristic_stub"]

\* item.get('title', id) of state.work_items.get(id, {})
ItemName(state, id) ==
    IF id \in DOMAIN state.work_items THEN OrElse(state.work_items[id].title, id) ELSE id

\* the owner_actor_id of the first ownership of the entity, "default_owner"
\* when there is none or it names no actor
OwnerOf(state, entity_id) ==
    IF \E i \in 1..Len(state.ownerships) : state.ownerships[i].entity_id = entity_id
    THEN OrElse(state.ownerships[CHOOSE i \in 1..Len(state.ownerships) :
                    /\ state.ownerships[i].entity_id = entity_id
                    /\ \A j \in 1..(i - 1) : state.ownerships[j].entity_id # entity_id]
                        .owner_actor_id,
                "default_owner")
    ELSE "default_owner"

\* Rule1_DependencyBlocked._determine_owner: dependency.get("from_id", "")
determine_owner(dependency, state) == OwnerOf(state, dependency.from_id)

\* _get_risk_owner of rules 4 and 5: risk.get("id")
get_risk_owner(risk, state) == OwnerOf(state, risk.id)

BlockedRiskId(dependency_id) == "risk_dep_blocked_" \o dependency_id

BlockedImpact(state, dependency, forecast_result) ==
    [p80_delay_days |-> forecast_result.delta_p80_days,
     p50_delay_days |-> forecast_result.delta_p50_days,
     blocked_item |-> ItemName(state, dependency.from_id),
     blocking_item |-> ItemName(state, dependency.to_id)]

\* the risk command as it would be if the risk were never looked up
BlockedRiskCommandCreateOnly(event, state, dependency, risk_id, forecast_result) ==
    Command(CommandId(event, "_create_risk"), "create_risk", risk_id,
            "rule_1_dependency_blocked",
            [id |-> risk_id, severity |-> "medium", status |-> "materialised",
             probability |-> 100,
             impact |-> BlockedImpact(state, dependency, forecast_result),
             affected_items |-> <<dependency.from_id>>],
            "urgent")

\* the create_risk or update_risk command of rule 1
BlockedRiskCommand(event, state, dependency, risk_id, forecast_result) ==
    IF DictGet(state.risks, Some(risk_id)) # None
    THEN Command(CommandId(event, "_update_risk"), "update_risk", risk_id,
                 "rule_1_dependency_blocked",
                 [status |-> "materialised",
                  impact |-> BlockedImpact(state, dependency, forecast_result),
                  forecast_method |-> forecast_result.method,
                  confidence |-> forecast_result.confidence],
                 "urgent")
    ELSE Command(CommandId(event, "_create_risk"), "create_risk", risk_id,
                 "rule_1_dependency_blocked",
                 [id |-> risk_id,
                  severity |-> IF forecast_result.delta_p80_days > HIGH_SEVERITY_ABOVE
                               THEN "high" ELSE "medium",
                  status |-> "materialised",
                  probability |-> 100,
                  impact |-> BlockedImpact(state, dependency, forecast_result),
                  affected_items |-> <<dependency.from_id>>],
                 "urgent")

BlockedCommands(event, state, today, dependency, risk_id) ==
    << BlockedRiskCommand(event, state, dependency, risk_id, simulate_ripple_stub(event)),
       Command(CommandId(event, "_set_next_date"), "set_next_date",
               determine_owner(dependency, state), "rule_1_dependency_blocked",
               [owner_id |-> determine_owner(dependency, state),
                entity_type |-> "risk", entity_id |-> risk_id,
                next_date |-> IsoFormat(today + MATERIALISED_NEXT_DAYS)],
               "urgent"),
       Command(CommandId(event, "_escalate"), "escalate_risk", risk_id,
               "rule_1_dependency_blocked", <<>>, "urgent") >>

\* Rule1_DependencyBlocked
Rule1Matches(event, state) ==
    event.event_type \in {"dependency_blocked", "dependency_unavailable"}

Rule1Execute(event, state, today) ==
    IF ~Truthy(event.dependency_id) THEN <<>>
    ELSE IF DictGet(state.dependencies, event.dependency_id) = None THEN <<>>
    ELSE BlockedCommands(event, state, today,
                         Val(DictGet(state.dependencies, event.dependency_id)),
                         BlockedRiskId(Val(event.dependency_id)))

\* Rule2_DependencyUnblocked
Rule2Matches(event, state) ==
    event.event_type \in {"dependency_unblocked", "dependency_available"}

\* rule 2 as it would be if the risk were closed without being looked up
Rule2ExecuteAlwaysClosing(event, state, today) ==
    IF ~Truthy(event.dependency_id) THEN <<>>
    ELSE << Command(CommandId(event, "_close_risk"), "set_risk_status",
                    BlockedRiskId(Val(event.dependency_id)),
                    "rule_2_dependency_unblocked", [status |-> "closed"], "normal"),
            Command(CommandId(event, "_recompute_forecast"), "recompute_forecast",
                    "system", "rule_2_dependency_unblocked", <<>>, "normal") >>

Rule2Execute(event, state, today) ==
    IF ~Truthy(event.dependency_id) THEN <<>>
    ELSE (IF DictGet(state.risks, Some(BlockedRiskId(Val(event.dependency_id)))) # None
          THEN << Command(CommandId(event, "_close_risk"), "set_risk_status",
                          BlockedRiskId(Val(event.dependency_id)),
                          "rule_2_dependency_unblocked", [status |-> "closed"], "normal") >>
          ELSE <<>>)
         \o << Command(CommandId(event, "_recompute_forecast"), "recompute_forecast",
                       "system", "rule_2_dependency_unblocked", <<>>, "normal") >>

\* Rule3_ForecastThresholdBreached: a stub
Rule3Matches(event, state) == event.event_type = "forecast_threshold_breached"

\* rule 3 as it would be with its escalation written
Rule3ExecuteEscalating(event, state, today) ==
    << Command(CommandId(event, "_escalate_breach"), "escalate_risk",
               OrElse(event.risk_id, ""), "rule_3_forecast_threshold_breached", <<>>,
               "urgent") >>

Rule3Execute(event, state, today) == <<>>

\* the decision of the event, None when the id is None or unknown
DecisionOf(event, state) == DictGet(state.decisions, event.decision_id)

\* the boundary date of an accept_risk decision: the parsed acceptance_until,
\* today + 30 days when the text does not parse, None when there is none
BoundaryDate(acceptance_until, today) ==
    IF acceptance_until = None THEN None
    ELSE IF Val(acceptance_until)[1] = "text" THEN Some(today + FALLBACK_BOUNDARY_DAYS)
    ELSE Some(Val(acceptance_until)[2])

\* acceptance_boundary: the type is the last of date, threshold, event that applies
AcceptanceBoundary(decision, boundary_date) ==
    [type |-> IF decision.escalation_trigger # None THEN Some("event")
              ELSE IF decision.threshold # None THEN Some("threshold")
              ELSE IF boundary_date # None THEN Some("date") ELSE None,
     date |-> IF boundary_date # None THEN Some(IsoFormat(Val(boundary_date))) ELSE None,
     threshold |-> decision.threshold,
     trigger |-> decision.escalation_trigger]

\* the review date as it would be if the boundary were not looked at
DefaultReviewDate(boundary_date, today) == today + REVIEW_INTERVAL_DAYS

\* next_review_date = min(boundary_date, today + 7 days)
NextReviewDate(boundary_date, today) ==
    IF boundary_date # None THEN Min(Val(boundary_date), today + REVIEW_INTERVAL_DAYS)
    ELSE today + REVIEW_INTERVAL_DAYS

AcceptCommands(event, decision, risk_id, owner_id, acceptance_boundary, next_review_date) ==
    << Command(CommandId(event, "_accept_risk"), "update_risk", risk_id,
               "rule_4_accept_risk_approved",
               [status |-> "accepted", accepted_by |-> owner_id,
                acceptance_boundary |-> acceptance_boundary,
                next_date |-> IsoFormat(next_review_date)],
               "normal"),
       Command(CommandId(event, "_set_next_date_acceptance"), "set_next_date", owner_id,
               "rule_4_accept_risk_approved",
               [owner_id |-> owner_id, entity_type |-> "risk", entity_id |-> risk_id,
                next_date |-> IsoFormat(next_review_date),
                suppress_escalation_until |->
                    OrElse(acceptance_boundary.date, IsoFormat(next_review_date)),
                escalation_mode |-> "quiet_monitoring"],
               "normal") >>

AcceptWithBoundary(event, state, today, decision, boundary_date) ==
    AcceptCommands(event, decision, Val(decision.risk_id),
                   get_risk_owner(state.risks[Val(decision.risk_id)], state),
                   AcceptanceBoundary(decision, boundary_date),
                   NextReviewDate(boundary_date, today))

\* Rule4_AcceptRiskDecisionApproved
Rule4Matches(event, state) ==
    /\ event.event_type = "decision_approved"
    /\ DecisionOf(event, state) # None
    /\ Val(DecisionOf(event, state)).decision_type = "accept_risk"

Rule4Execute(event, state, today) ==
    IF DecisionOf(event, state) = None THEN <<>>
    ELSE IF ~Truthy(Val(DecisionOf(event, state)).risk_id) THEN <<>>
    ELSE IF DictGet(state.risks, Val(DecisionOf(event, state)).risk_id) = None THEN <<>>
    ELSE AcceptWithBoundary(event, state, today, Val(DecisionOf(event, state)),
             BoundaryDate(Val(DecisionOf(event, state)).acceptance_until, today))

\* due_date_str: the text as it is, or the isoformat of a date object
DueDateStr(due_date) ==
    IF due_date = None THEN None
    ELSE IF Val(due_date)[1] = "date" THEN Some(IsoFormat(Val(due_date)[2]))
    ELSE due_date

\* due_date_obj: the parsed date, today + 14 days when the text does not parse
DueDateObj(due_date, today) ==
    IF Val(due_date)[1] = "text" THEN today + FALLBACK_DUE_DAYS ELSE Val(due_date)[2]

\* the commands as they would be if the due date were never tracked
MitigateCommandsUntracked(event, state, today, decision, risk_id) ==
    << Command(CommandId(event, "_mitigate_risk"), "update_risk", risk_id,
               "rule_5_mitigate_risk_approved",
               [status |-> "mitigating", mitigation_decision |-> Val(event.decision_id),
                mitigation_action |-> OrElse(decision.action, ""),
                mitigation_due_date |-> DueDateStr(decision.due_date)],
               "normal"),
       Command(CommandId(event, "_schedule_forecast"), "update_forecast", risk_id,
               "rule_5_mitigate_risk_approved",
               [trigger |-> "mitigation_completion", risk_id |-> risk_id],
               "normal") >>

MitigateCommands(event, state, today, decision, risk_id) ==
    << Command(CommandId(event, "_mitigate_risk"), "update_risk", risk_id,
               "rule_5_mitigate_risk_approved",
               [status |-> "mitigating", mitigation_decision |-> Val(event.decision_id),
                mitigation_action |-> OrElse(decision.action, ""),
                mitigation_due_date |-> DueDateStr(decision.due_date)],
               "normal") >>
    \o (IF decision.due_date # None
        THEN << Command(CommandId(event, "_set_mitigation_due_date"), "set_next_date",
                        get_risk_owner(state.risks[risk_id], state),
                        "rule_5_mitigate_risk_approved",
                        [owner_id |-> get_risk_owner(state.risks[risk_id], state),
                         entity_type |-> "risk", entity_id |-> risk_id,
                         next_date |-> IsoFormat(DueDateObj(decision.due_date, today)),
                         action_required |-> "complete_mitigation"],
                        "normal") >>
        ELSE <<>>)
    \o << Command(CommandId(event, "_schedule_forecast"), "update_forecast", risk_id,
                  "rule_5_mitigate_risk_approved",
                  [trigger |-> "mitigation_completion", risk_id |-> risk_id],
                  "normal") >>

\* Rule5_MitigateRiskDecisionApproved
Rule5Matches(event, state) ==
    /\ event.event_type = "decision_approved"
    /\ DecisionOf(event, state) # None
    /\ Val(DecisionOf(event, state)).decision_type = "mitigate_risk"

Rule5Execute(event, state, today) ==
    IF DecisionOf(event, state) = None THEN <<>>
    ELSE IF ~Truthy(Val(DecisionOf(event, state)).risk_id) THEN <<>>
    ELSE IF DictGet(state.risks, Val(DecisionOf(event, state)).risk_id) = None THEN <<>>
    ELSE MitigateCommands(event, state, today, Val(DecisionOf(event, state)),
                          Val(Val(DecisionOf(event, state)).risk_id))

\* Rule6_RiskMaterialised
Rule6Matches(event, state) == event.event_type = "risk_materialised"

Rule6Execute(event, state, today) ==
    IF ~Truthy(event.risk_id) THEN <<>>
    ELSE << Command(CommandId(event, "_materialise_risk"), "set_risk_status",
                    Val(event.risk_id), "rule_6_risk_materialised",
                    [status |-> "materialised"], "urgent"),
            Command(CommandId(event, "_escalate_materialised"), "escalate_risk",
                    Val(event.risk_id), "rule_6_risk_materialised", <<>>,
                    "urgent") >>

\* Rule7_RiskClosed
Rule7Matches(event, state) ==
    event.event_type = "risk_updated" /\ event.risk_status = Some("closed")

Rule7Execute(event, state, today) ==
    << Command(CommandId(event, "_recompute_forecast_on_close"), "recompute_forecast",
               "system", "rule_7_risk_closed", <<>>, "normal") >>

\* Rule8_ChangeApproved: a stub
Rule8Matches(event, state) == event.event_type = "change_approved"

Rule8Execute(event, state, today) == <<>>

\* Rule9_DecisionSuperseded: a stub
Rule9Matches(event, state) == event.event_type = "decision_superseded"

Rule9Execute(event, state, today) == <<>>

\* a rule object: one of the nine classes, or a rule of the caller's own that
\* matches the event types it lists and returns one command
BuiltinRule(name) == [name |-> name, custom |-> FALSE, event_types |-> {}, command_type |-> ""]

CustomRule(name, event_types, command_type) ==
    [name |-> name, custom |-> TRUE, event_types |-> event_types, command_type |-> command_type]

\* DecisionRiskEngine.__init__
DefaultRules ==
    << BuiltinRule("rule_1_dependency_blocked"), BuiltinRule("rule_2_dependency_unblocked"),
       BuiltinRule("rule_3_forecast_threshold_breached"),
       BuiltinRule("rule_4_accept_risk_approved"), BuiltinRule("rule_5_mitigate_risk_approved"),
       BuiltinRule("rule_6_risk_materialised"), BuiltinRule("rule_7_risk_closed"),
       BuiltinRule("rule_8_change_approved"), BuiltinRule("rule_9_decision_superseded") >>

\* rule.matches(event, state)
Matches(rule, event, state) ==
    IF rule.custom THEN event.event_type \in rule.event_types
    ELSE CASE rule.name = "rule_1_dependency_blocked" -> Rule1Matches(event, state)
           [] rule.name = "rule_2_dependency_unblocked" -> Rule2Matches(event, state)
           [] rule.name = "rule_3_forecast_threshold_breached" -> Rule3Matches(event, state)
           [] rule.name = "rule_4_accept_risk_approved" -> Rule4Matches(event, state)
           [] rule.name = "rule_5_mitigate_risk_approved" -> Rule5Matches(event, state)
           [] rule.name = "rule_6_risk_materialised" -> Rule6Matches(event, state)
           [] rule.name = "rule_7_risk_closed" -> Rule7Matches(event, state)
           [] rule.name = "rule_8_change_approved" -> Rule8Matches(event, state)
           [] rule.name = "rule_9_decision_superseded" -> Rule9Matches(event, state)

\* rule.execute(event, state)
Execute(rule, event, state, today) ==
    IF rule.custom
    THEN << Command(CommandId(event, "_custom"), rule.command_type, "system", rule.name,
                    <<>>, "normal") >>
    ELSE CASE rule.name = "rule_1_dependency_blocked" -> Rule1Execute(event, state, today)
           [] rule.name = "rule_2_dependency_unblocked" -> Rule2Execute(event, state, today)
           [] rule.name = "rule_3_forecast_threshold_breached" -> Rule3Execute(event, state, today)
           [] rule.name = "rule_4_accept_risk_approved" -> Rule4Execute(event, state, today)
           [] rule.name = "rule_5_mitigate_risk_approved" -> Rule5Execute(event, state, today)
           [] rule.name = "rule_6_risk_materialised" -> Rule6Execute(event, state, today)
           [] rule.name = "rule_7_risk_closed" -> Rule7Execute(event, state, today)
           [] rule.name = "rule_8_change_approved" -> Rule8Execute(event, state, today)
           [] rule.name = "rule_9_decision_superseded" -> Rule9Execute(event, state, today)

\* the loop of process_event over self.rules: commands is the list returned,
\* evaluated the calls of matches in the order they were made, rule_list and
\* state the engine's list and the caller's snapshot as the call leaves them
RECURSIVE ProcessLoop(_, _, _, _, _, _, _)
ProcessLoop(rule_list, i, event, state, today, commands, evaluated) ==
    IF i > Len(rule_list)
    THEN [kind |-> "ok", commands |-> commands, evaluated |-> evaluated,
          rule_list |-> rule_list, state |-> state]
    ELSE ProcessLoop(rule_list, i + 1, event, state, today,
                     IF Matches(rule_list[i], event, state)
                     THEN commands \o Execute(rule_list[i], event, state, today)
                     ELSE commands,
                     Append(evaluated, [rule |-> rule_list[i].name,
                                        matched |-> Matches(rule_list[i], event, state)]))

\* a loop that would return at the first rule that matches
RECURSIVE FirstMatchLoop(_, _, _, _, _, _)
FirstMatchLoop(rule_list, i, event, state, today, evaluated) ==
    IF i > Len(rule_list)
    THEN [kind |-> "ok", commands |-> <<>>, evaluated |-> evaluated,
          rule_list |-> rule_list, state |-> state]
    ELSE IF Matches(rule_list[i], event, state)
    THEN [kind |-> "ok", commands |-> Execute(rule_list[i], event, state, today),
          evaluated |-> Append(evaluated, [rule |-> rule_list[i].name, matched |-> TRUE]),
          rule_list |-> rule_list, state |-> state]
    ELSE FirstMatchLoop(rule_list, i + 1, event, state, today,
                        Append(evaluated, [rule |-> rule_list[i].name, matched |-> FALSE]))

process_event_first_match(rule_list, event, state, today) ==
    FirstMatchLoop(rule_list, 1, event, state, today, <<>>)

\* the snapshot as it would be if create_risk were written into it
RECURSIVE WithCreatedRisks(_, _, _)
WithCreatedRisks(risks, commands, i) ==
    IF i > Len(commands) THEN risks
    ELSE WithCreatedRisks(IF commands[i].command_type = "create_risk"
                          THEN (commands[i].target_id :> commands[i].payload) @@ risks
                          ELSE risks,
                          commands, i + 1)

ApplyingResult(r) ==
    [r EXCEPT !.state = [r.state EXCEPT !.risks = WithCreatedRisks(r.state.risks, r.commands, 1)]]

\* an engine that would apply its commands to the snapshot it was given
process_event_applying(rule_list, event, state, today) ==
    ApplyingResult(ProcessLoop(rule_list, 1, event, state, today, <<>>, <<>>))

\* DecisionRiskEngine.process_event
process_event(rule_list, event, state, today) ==
    ProcessLoop(rule_list, 1, event, state, today, <<>>, <<>>)

\* DecisionRiskEngine.add_rule
add_rule(rule_list, rule) == Append(rule_list, rule)

\* ------------------------------------------------ the engine's bounded inputs
EngineWorkItems ==
    [work_item_001 |-> [title |-> Some("Backend API")],
     work_item_002 |-> [title |-> None]]

EngineDependencies ==
    [dep_001 |-> [from_id |-> "work_item_002", to_id |-> "work_item_001"],
     dep_002 |-> [from_id |-> "work_item_003", to_id |-> "work_item_002"]]

EngineRisks ==
    [risk_001 |-> [id |-> "risk_001", status |-> "open"],
     risk_002 |-> [id |-> "risk_002", status |-> "open"]]

EngineRisksWithBlocked ==
    [risk_001 |-> [id |-> "risk_001", status |-> "open"],
     risk_002 |-> [id |-> "risk_002", status |-> "open"],
     risk_dep_blocked_dep_001 |-> [id |-> "risk_dep_blocked_dep_001", status |-> "materialised"]]

\* the ownerships in the order of the dict
EngineOwnerships ==
    << [entity_id |-> "work_item_002", owner_actor_id |-> Some("actor_001")],
       [entity_id |-> "risk_001", owner_actor_id |-> Some("actor_002")],
       [entity_id |-> "risk_001", owner_actor_id |-> Some("actor_003")],
       [entity_id |-> "risk_dep_blocked_dep_001", owner_actor_id |-> None] >>

EngineDecision(decision_type, risk_id, acceptance_until, due_date, threshold, escalation_trigger) ==
    [decision_type |-> decision_type, risk_id |-> risk_id,
     acceptance_until |-> acceptance_until, due_date |-> due_date,
     threshold |-> threshold, escalation_trigger |-> escalation_trigger,
     action |-> Some("add capacity")]

EngineDecisions ==
    [dec_accept_open |-> EngineDecision("accept_risk", Some("risk_001"), None, None, None, None),
     dec_accept_past |-> EngineDecision("accept_risk", Some("risk_001"), Some(<<"iso", 0>>), None, None, None),
     dec_accept_near |-> EngineDecision("accept_risk", Some("risk_001"), Some(<<"iso", 3>>), None, None, None),
     dec_accept_week |-> EngineDecision("accept_risk", Some("risk_002"), Some(<<"iso", 7>>), None, None, None),
     dec_accept_far |-> EngineDecision("accept_risk", Some("risk_001"), Some(<<"iso", 30>>), None, None, None),
     dec_accept_text |-> EngineDecision("accept_risk", Some("risk_001"), Some(<<"text", "next quarter">>), None, None, None),
     dec_accept_date |-> EngineDecision("accept_risk", Some("risk_002"), Some(<<"date", 5>>), None, None, None),
     dec_accept_threshold |-> EngineDecision("accept_risk", Some("risk_001"), Some(<<"iso", 3>>), None, Some("p80 > 14d"), None),
     dec_accept_trigger |-> EngineDecision("accept_risk", Some("risk_001"), None, None, None, Some("dependency_blocked")),
     dec_accept_norisk |-> EngineDecision("accept_risk", None, Some(<<"iso", 3>>), None, None, None),
     dec_accept_ghost |-> EngineDecision("accept_risk", Some("risk_404"), Some(<<"iso", 3>>), None, None, None),
     dec_mitigate_open |-> EngineDecision("mitigate_risk", Some("risk_001"), None, None, None, None),
     dec_mitigate_due |-> EngineDecision("mitigate_risk", Some("risk_001"), None, Some(<<"iso", 14>>), None, None),
     dec_mitigate_text |-> EngineDecision("mitigate_risk", Some("risk_002"), None, Some(<<"text", "end of sprint">>), None, None),
     dec_mitigate_date |-> EngineDecision("mitigate_risk", Some("risk_002"), None, Some(<<"date", 9>>), None, None),
     dec_mitigate_norisk |-> EngineDecision("mitigate_risk", Some(""), None, Some(<<"iso", 14>>), None, None),
     dec_mitigate_ghost |-> EngineDecision("mitigate_risk", Some("risk_404"), None, Some(<<"iso", 14>>), None, None),
     dec_scope |-> EngineDecision("change_scope", Some("risk_001"), None, None, None, None)]

EngineState(risks) ==
    [work_items |-> EngineWorkItems, dependencies |-> EngineDependencies, risks |-> risks,
     decisions |-> EngineDecisions, ownerships |-> EngineOwnerships]

\* StateSnapshot(): every dict empty
EmptyEngineState ==
    [work_items |-> <<>>, dependencies |-> <<>>, risks |-> <<>>, decisions |-> <<>>,
     ownerships |-> <<>>]

EngineStates == {EmptyEngineState, EngineState(EngineRisks), EngineState(EngineRisksWithBlocked)}

DependencyIds == {None, Some(""), Some("dep_001"), Some("dep_002"), Some("dep_404")}

DecisionIds == {None, Some("dec_404")} \cup {Some(d) : d \in DOMAIN EngineDecisions}

Events ==
    {Event(t, d, None, None, None, None) :
        t \in {"dependency_blocked", "dependency_unavailable", "dependency_unblocked",
               "dependency_available"},
        d \in DependencyIds}
    \cup {Event("decision_approved", None, None, None, d, None) : d \in DecisionIds}
    \cup {Event(t, None, None, None, d, None) :
            t \in {"decision_created", "decision_superseded"},
            d \in {None, Some("dec_accept_near")}}
    \cup {Event("risk_materialised", None, r, None, None, None) :
            r \in {None, Some(""), Some("risk_001")}}
    \cup {Event("risk_updated", None, Some("risk_001"), s, None, None) :
            s \in {None, Some("closed"), Some("open")}}
    \cup {Event(t, None, Some("risk_001"), None, None, None) :
            t \in {"risk_created", "risk_acceptance_expired", "forecast_updated",
                   "forecast_threshold_breached"}}
    \cup {Event(t, None, None, None, None, Some("change_001")) :
            t \in {"change_created", "change_approved", "change_rejected"}}

\* mock_world.json: the lists the endpoints change
World(risks, decisions, milestones) ==
    [risks |-> risks, decisions |-> decisions, milestones |-> milestones]

EmptyWorld == World(<<>>, <<>>, <<>>)

\* rules of the caller's own, for add_rule
AuditRule == CustomRule("custom_audit", EventTypes, "emit_explanation")

WatchRule ==
    CustomRule("custom_dependency_watch",
               {"dependency_blocked", "dependency_unblocked", "change_approved"}, "assign_owner")

ExtraRules == {AuditRule, WatchRule}

\* ------------------------------------------------------------- the state machine
NoCall == [op |-> "none", milestone_id |-> "", args |-> <<>>, before |-> <<>>]

Call(op, milestone_id, args) ==
    [op |-> op, milestone_id |-> milestone_id, args |-> args,
     before |-> state_snapshot]

\* no forecast is running
NoThreads == [t \in {"A", "B"} |-> [pc |-> "idle"]]

NoEngineCall == [op |-> "none", event |-> <<>>, rule |-> <<>>, today |-> 0, rules_before |-> <<>>]

Init ==
    /\ state_snapshot \in Snapshots
    /\ now = 0
    /\ call = NoCall
    /\ result = [kind |-> "none"]
    /\ rules = DefaultRules
    /\ engine_state = EmptyEngineState
    /\ engine_call = NoEngineCall
    /\ engine_result = [kind |-> "none"]
    /\ store = EmptyWorld
    /\ trail = <<>>
    /\ threads = NoThreads

\* wall-clock time passes
Tick ==
    /\ now < 100 * MaxClock
    /\ now' = now + 100
    /\ UNCHANGED <<forecast_vars, engine_vars, store_vars, threads>>

\* a direct call of forecastMilestone on the caller's snapshot
ForecastMilestone(milestone_id, options) ==
    \E r \in {forecastMilestone(milestone_id, state_snapshot, options, now)} :
        /\ call' = Call("forecastMilestone", milestone_id, options)
        /\ result' = [kind |-> r.kind, value |-> r.value, internals |-> r.internals,
                      work |-> r.work]
        /\ state_snapshot' = r.caller
        /\ UNCHANGED <<now, engine_vars, store_vars, threads>>

\* the endpoints work on a snapshot loaded afresh for the request
GetBaselineForecast(milestone_id) ==
    /\ call' = Call("get_baseline_forecast", milestone_id, <<>>)
    /\ result' = get_baseline_forecast(milestone_id, state_snapshot, now)
    /\ UNCHANGED <<state_snapshot, now, engine_vars, store_vars, threads>>

GetScenarioForecast(milestone_id, scenario_type, params) ==
    /\ call' = Call("get_scenario_forecast", milestone_id,
                    [scenario_type |-> scenario_type, params |-> params])
    /\ result' = get_scenario_forecast(milestone_id, scenario_type, params, state_snapshot, now)
    /\ UNCHANGED <<state_snapshot, now, engine_vars, store_vars, threads>>

GetMitigationPreview(milestone_id, risk_id, reduction) ==
    /\ call' = Call("get_mitigation_preview", milestone_id,
                    [risk_id |-> risk_id, reduction |-> reduction])
    /\ result' = get_mitigation_preview(milestone_id, risk_id, reduction, state_snapshot, now)
    /\ UNCHANGED <<state_snapshot, now, engine_vars, store_vars, threads>>

GetForecastSummary(milestone_id) ==
    /\ call' = Call("get_forecast_summary", milestone_id, <<>>)
    /\ result' = get_forecast_summary(milestone_id, state_snapshot, now)
    /\ UNCHANGED <<state_snapshot, now, engine_vars, store_vars, threads>>

Next ==
    \/ Tick
    \/ \E c \in Calls : ForecastMilestone(c[1], c[2])
    \/ \E m \in MilestoneIds : GetBaselineForecast(m)
    \/ \E q \in ScenarioRequests : GetScenarioForecast(q[1], q[2], q[3])
    \/ \E q \in PreviewRequests : GetMitigationPreview(q[1], q[2], q[3])
    \/ \E m \in MilestoneIds : GetForecastSummary(m)

Spec == Init /\ [][Next]_vars

\* ---------------------------------------------- the engine's state machine
EngineCall(op, event, rule) ==
    [op |-> op, event |-> event, rule |-> rule, today |-> Today(now), rules_before |-> rules]

\* engine.process_event(event, state)
ProcessEvent(event) ==
    \E r \in {process_event(rules, event, engine_state, Today(now))} :
        /\ engine_call' = EngineCall("process_event", event, <<>>)
        /\ engine_result' = [kind |-> r.kind, commands |-> r.commands, evaluated |-> r.evaluated]
        /\ rules' = r.rule_list
        /\ engine_state' = r.state
        /\ UNCHANGED <<now, forecast_vars, store_vars, threads>>

\* engine.add_rule(rule)
AddRule(rule) ==
    /\ Len(rules) < Len(DefaultRules) + MaxCustomRules
    /\ engine_call' = EngineCall("add_rule", <<>>, rule)
    /\ rules' = add_rule(rules, rule)
    /\ engine_result' = [kind |-> "none"]
    /\ UNCHANGED <<engine_state, now, forecast_vars, store_vars, threads>>

\* a DecisionRiskEngine as constructed, with the state snapshot of the request
EngineInit ==
    /\ state_snapshot = Snapshot(<<>>, <<>>, <<>>, <<>>)
    /\ now = 0
    /\ call = NoCall
    /\ result = [kind |-> "none"]
    /\ rules = DefaultRules
    /\ engine_state \in EngineStates
    /\ engine_call = NoEngineCall
    /\ engine_result = [kind |-> "none"]
    /\ store = EmptyWorld
    /\ trail = <<>>
    /\ threads = NoThreads

EngineNext ==
    \/ Tick
    \/ \E e \in Events : ProcessEvent(e)
    \/ \E r \in ExtraRules : AddRule(r)

EngineSpec == EngineInit /\ [][EngineNext]_vars

\* ------------------------------------------- two forecasts on one snapshot
\* Two threads call forecastMilestone on the same dict.  A call is taken in
\* two steps between which the other thread may run: the perturbations
\* (forecast.py:135-142), which write, and the calculations (145-197), which
\* read.  The copy a call works on shares with the caller's dict every nested
\* dict that was there when the call began.
ForecastCall(milestone_id, options) == [milestone_id |-> milestone_id, options |-> options]

ResultOf(r) == [kind |-> r.kind, value |-> r.value]

Thread(pc, c, alone, milestone, p, returned, shared) ==
    [pc |-> pc, call |-> c, alone |-> alone, milestone |-> milestone, p |-> p,
     result |-> returned, shared |-> shared]

\* the call's copy as it reads now: a nested dict shared with the caller's
\* snapshot holds what the snapshot holds
SharedRisk(own, theirs) ==
    IF theirs.hypothetical_mitigation.present
    THEN [own EXCEPT !.hypothetical_mitigation = theirs.hypothetical_mitigation]
    ELSE own

Refreshed(p, snapshot) ==
    [p EXCEPT
       !.state.scenario_delays =
           IF snapshot.scenario_delays.present THEN snapshot.scenario_delays ELSE @,
       !.state.scenario_scope_changes =
           IF snapshot.scenario_scope_changes.present THEN snapshot.scenario_scope_changes ELSE @,
       !.state.scenario_capacity_changes =
           IF snapshot.scenario_capacity_changes.present
           THEN snapshot.scenario_capacity_changes ELSE @,
       !.state.risks = [i \in 1..Len(@) |-> SharedRisk(@[i], snapshot.risks[i])]]

\* the hypothetical mitigation, after the scenario
EnterMitigated(c, alone, milestone, p) ==
    Thread("entered", c, alone, milestone, p, [kind |-> "none"], p.caller)

EnterPerturbed(c, alone, milestone, p1) ==
    IF p1.err # "none"
    THEN Thread("done", c, alone, milestone, <<>>,
                ResultOf(Raised(p1.err, p1.caller, p1.state, p1.divisors)), p1.caller)
    ELSE EnterMitigated(c, alone, milestone,
             [apply_hypothetical_mitigation(p1.state, p1.caller,
                                            c.options.hypothetical_mitigation, p1.tracker)
                 EXCEPT !.divisors = p1.divisors])

EnterFound(c, snapshot, alone, found) ==
    IF found = None
    THEN Thread("done", c, alone, <<>>, <<>>,
                ResultOf(Raised("ValueError", snapshot, snapshot, {})), snapshot)
    ELSE EnterPerturbed(c, alone, Val(found),
             apply_scenario_perturbations(snapshot, snapshot, c.milestone_id,
                                          c.options.scenario, <<>>))

\* the first step of a call; alone is what the call returns on the snapshot
\* as it was before either thread began
EnterCall(c, snapshot, original, current_date) ==
    EnterFound(c, snapshot,
               ResultOf(forecastMilestone(c.milestone_id, original, c.options, current_date)),
               get_milestone(c.milestone_id, snapshot))

\* the second step of a call
CompleteCall(th, snapshot, current_date) ==
    [th EXCEPT !.pc = "done",
               !.result = ResultOf(Aggregate(th.milestone, th.call.options, current_date,
                                             Refreshed(th.p, snapshot)))]

ConcurrentSnapshots ==
    TaggedSnapshots
    \cup {Snapshot(ChainItems(Upstream), <<>>, <<>>, <<>>)}
    \cup {Snapshot(ChainItems(Upstream), <<>>,
                   << Risk("r1", "open", Some(50), Some(400), Some("m1"), <<>>, m) >>, <<>>) :
            m \in {Absent, Present(EmptyMap)}}

ConcurrentCalls ==
    {ForecastCall("m1", NoOptions), ForecastCall("m9", NoOptions),
     ForecastCall("m1", DelayScenario("w1", 700)), ForecastCall("m1", ScopeScenario(800)),
     ForecastCall("m1", CapacityScenario(50)), ForecastCall("m1", WithMitigation("r1", Some(200)))}

Enter(t, c) ==
    /\ threads[t].pc = "idle"
    /\ \E th \in {EnterCall(c, state_snapshot, call.before, now)} :
         /\ threads' = [threads EXCEPT ![t] = th]
         /\ state_snapshot' = th.shared
    /\ UNCHANGED <<now, call, result, engine_vars, store_vars>>

Complete(t) ==
    /\ threads[t].pc = "entered"
    /\ threads' = [threads EXCEPT ![t] = CompleteCall(@, state_snapshot, now)]
    /\ UNCHANGED <<state_snapshot, now, call, result, engine_vars, store_vars>>

ConcurrentInit ==
    /\ state_snapshot \in ConcurrentSnapshots
    /\ now = 0
    /\ call = [op |-> "concurrent", milestone_id |-> "", args |-> <<>>, before |-> state_snapshot]
    /\ result = [kind |-> "none"]
    /\ rules = DefaultRules
    /\ engine_state = EmptyEngineState
    /\ engine_call = NoEngineCall
    /\ engine_result = [kind |-> "none"]
    /\ store = EmptyWorld
    /\ trail = <<>>
    /\ threads = NoThreads

ConcurrentNext ==
    \/ \E t \in DOMAIN threads : \E c \in ConcurrentCalls : Enter(t, c)
    \/ \E t \in DOMAIN threads : Complete(t)

ConcurrentSpec == ConcurrentInit /\ [][ConcurrentNext]_vars

\* ============================================================ decisions API
\* backend/app/models/decision.py and backend/app/api/decisions.py.  A request
\* body is a record of the model's fields; a date of the body is a whole day,
\* and model_dump(mode='json') stores it as text.
DecisionTypes ==
    {"change_scope", "change_schedule", "change_capacity", "change_priority",
     "accept_risk", "mitigate_risk"}

DecisionStatuses == {"proposed", "approved", "superseded"}

valid_subtypes(decision_type) ==
    CASE decision_type = "change_scope" -> {"ADD", "REMOVE", "SWAP", "SPLIT_PHASES"}
      [] decision_type = "change_schedule" ->
             {"MOVE_TARGET_DATE", "CHANGE_CONFIDENCE_LEVEL", "FREEZE_DATE"}
      [] decision_type = "change_capacity" ->
             {"ADD_PEOPLE", "REMOVE_PEOPLE", "REALLOCATE_PEOPLE", "ADD_TIMEBOX", "ADD_BUDGET"}
      [] decision_type = "change_priority" -> {"MAKE_CRITICAL", "DEPRIORITISE", "PAUSE", "RESUME"}
      [] decision_type = "accept_risk" ->
             {"ACCEPT_UNTIL_DATE", "ACCEPT_WITH_THRESHOLD", "ACCEPT_AND_MONITOR"}
      [] decision_type = "mitigate_risk" ->
             {"DECOUPLE_DEPENDENCY", "REDUCE_WIP", "SPLIT_WORK", "ADD_REVIEWER_CAPACITY",
              "ESCALATE_BLOCKER"}

\* the type-specific fields, every one Optional and None by default
NoFields ==
    [add_item_ids |-> None, remove_item_ids |-> None, reason |-> None,
     effort_delta_days |-> None, new_target_date |-> None, previous_target_date |-> None,
     commitment_percentile |-> None, team_id |-> None, delta_fte |-> None,
     start_date |-> None, end_date |-> None, method |-> None, cost_delta |-> None,
     item_ids |-> None, priority_rank |-> None, priority_bucket |-> None,
     risk_id |-> None, acceptance_until |-> None, threshold |-> None,
     escalation_trigger |-> None, action |-> None, due_date |-> None, next_date |-> None]

DateFields ==
    {"new_target_date", "previous_target_date", "start_date", "end_date",
     "acceptance_until", "due_date", "next_date"}

DecisionBody(id, decision_type, subtype, status, milestone_name, fields) ==
    [id |-> id, decision_type |-> decision_type, subtype |-> subtype, status |-> status,
     milestone_name |-> milestone_name] @@ fields @@ NoFields

\* not x, for an Optional list
Listed(o) == o # None /\ Len(Val(o)) > 0

\* Decision.validate_subtype: the message of the ValueError, or None
validate_subtype(d) ==
    IF d.decision_type \in DecisionTypes /\ d.subtype \notin valid_subtypes(d.decision_type)
    THEN Some("Invalid subtype") ELSE None

\* the validator as it would be if it required nothing
RequiredFieldsUnchecked(d) == None

\* Decision.validate_required_fields: the message of the ValueError, or None
validate_required_fields(d) ==
    CASE d.decision_type = "change_scope" ->
             IF ~Listed(d.add_item_ids) /\ ~Listed(d.remove_item_ids)
             THEN Some("CHANGE_SCOPE requires at least one of add_item_ids or remove_item_ids")
             ELSE IF ~Truthy(d.reason) THEN Some("CHANGE_SCOPE requires reason field")
             ELSE None
      [] d.decision_type = "change_schedule" ->
             IF d.subtype = "MOVE_TARGET_DATE" /\ d.new_target_date = None
             THEN Some("MOVE_TARGET_DATE requires new_target_date")
             ELSE IF d.subtype = "CHANGE_CONFIDENCE_LEVEL" /\ d.commitment_percentile = None
             THEN Some("CHANGE_CONFIDENCE_LEVEL requires commitment_percentile")
             ELSE None
      [] d.decision_type = "change_capacity" ->
             IF ~Truthy(d.team_id) THEN Some("CHANGE_CAPACITY requires team_id")
             ELSE IF d.delta_fte = None THEN Some("CHANGE_CAPACITY requires delta_fte")
             ELSE IF d.start_date = None THEN Some("CHANGE_CAPACITY requires start_date")
             ELSE IF d.method = None THEN Some("CHANGE_CAPACITY requires method")
             ELSE None
      [] d.decision_type = "change_priority" ->
             IF ~Listed(d.item_ids) THEN Some("CHANGE_PRIORITY requires item_ids")
             ELSE IF ~Truthy(d.reason) THEN Some("CHANGE_PRIORITY requires reason")
             ELSE None
      [] d.decision_type = "accept_risk" ->
             IF ~Truthy(d.risk_id) THEN Some("ACCEPT_RISK requires risk_id")
             ELSE IF d.subtype = "ACCEPT_UNTIL_DATE" /\ d.acceptance_until = None
             THEN Some("ACCEPT_UNTIL_DATE requires acceptance_until")
             ELSE IF d.subtype = "ACCEPT_WITH_THRESHOLD" /\ ~Truthy(d.threshold)
             THEN Some("ACCEPT_WITH_THRESHOLD requires threshold")
             ELSE None
      [] d.decision_type = "mitigate_risk" ->
             IF ~Truthy(d.risk_id) THEN Some("MITIGATE_RISK requires risk_id")
             ELSE IF ~Truthy(d.action) THEN Some("MITIGATE_RISK requires action")
             ELSE None
      [] OTHER -> None

\* Decision(**body): the enums of the field types, then the two validators in
\* the order of their definition; the message of the error, or None
ValidationError(body) ==
    IF body.decision_type \notin DecisionTypes THEN Some("Input should be a decision type")
    ELSE IF body.status \notin DecisionStatuses THEN Some("Input should be a status")
    ELSE IF validate_subtype(body) # None THEN validate_subtype(body)
    ELSE validate_required_fields(body)

\* model_dump(mode='json'): a date becomes its ISO text
model_dump(decision) ==
    [f \in DOMAIN decision |->
        IF f \in DateFields /\ decision[f] # None THEN Some(IsoFormat(Val(decision[f])))
        ELSE decision[f]]

\* Decision(**stored): the ISO text becomes a date again
model_validate(stored) ==
    [f \in DOMAIN stored |->
        IF f \in DateFields /\ stored[f] # None THEN Some(Val(stored[f])[2])
        ELSE stored[f]]

\* the first dict of a list with this id: its index, or 0
RECURSIVE IndexById(_, _, _)
IndexById(list, id, i) ==
    IF i > Len(list) THEN 0
    ELSE IF list[i].id = id THEN i
    ELSE IndexById(list, id, i + 1)

RECURSIVE IndexByName(_, _, _)
IndexByName(list, name, i) ==
    IF i > Len(list) THEN 0
    ELSE IF list[i].name = name THEN i
    ELSE IndexByName(list, name, i + 1)

\* create_decision: the milestone name of an accept/mitigate decision is taken
\* from its risk's milestone when the body gives none
NameFromRisk(decision, world, r) ==
    IF r = 0 \/ ~Truthy(world.risks[r].milestone_id) THEN decision.milestone_name
    ELSE IF IndexById(world.milestones, Val(world.risks[r].milestone_id), 1) = 0
    THEN decision.milestone_name
    ELSE world.milestones[IndexById(world.milestones,
                                    Val(world.risks[r].milestone_id), 1)].name

Populated(decision, world) ==
    IF /\ decision.milestone_name = ""
       /\ decision.decision_type \in {"accept_risk", "mitigate_risk"}
       /\ Truthy(decision.risk_id)
    THEN [decision EXCEPT !.milestone_name =
              NameFromRisk(decision, world, IndexById(world.risks, Val(decision.risk_id), 1))]
    ELSE decision

\* _apply_decision_effects on the milestone found by name (m is its index);
\* the work items of a milestone are kept as a set, as the code rebuilds the
\* list from one
Rescoped(milestone, decision) ==
    IF decision.subtype = "ADD" /\ Listed(decision.add_item_ids)
    THEN [milestone EXCEPT !.work_items =
              @ \cup {Val(decision.add_item_ids)[i] : i \in 1..Len(Val(decision.add_item_ids))}]
    ELSE IF decision.subtype = "REMOVE" /\ Listed(decision.remove_item_ids)
    THEN [milestone EXCEPT !.work_items =
              @ \ {Val(decision.remove_item_ids)[i] :
                     i \in 1..Len(Val(decision.remove_item_ids))}]
    ELSE milestone

EffectsOn(decision, world, m) ==
    IF m = 0 THEN world
    ELSE IF decision.decision_type = "change_schedule"
    THEN [world EXCEPT !.milestones[m].target_date = IsoFormat(Val(decision.new_target_date))]
    ELSE [world EXCEPT !.milestones[m] = Rescoped(@, decision)]

apply_decision_effects(decision, world) ==
    IF decision.status = "superseded" THEN world
    ELSE IF \/ /\ decision.decision_type = "change_schedule"
               /\ decision.subtype = "MOVE_TARGET_DATE"
               /\ decision.new_target_date # None
            \/ decision.decision_type = "change_scope"
    THEN EffectsOn(decision, world, IndexByName(world.milestones, decision.milestone_name, 1))
    ELSE world

Handled(response, world) == [response |-> response, world |-> world]

\* the handler after the body was parsed into a Decision
Stored(decision, world) ==
    Handled(Response(200, Some(decision)),
            apply_decision_effects(decision,
                [world EXCEPT !.decisions = Append(@, model_dump(decision))]))

create_decision(body, world) ==
    IF ValidationError(body) # None THEN Handled(Response(422, ValidationError(body)), world)
    ELSE IF IndexById(world.decisions, body.id, 1) # 0
    THEN Handled(Response(400, None), world)
    ELSE Stored(Populated(body, world), world)

Replaced(decision, world, i) ==
    IF i = 0 THEN Handled(Response(404, None), world)
    ELSE Handled(Response(200, Some(decision)),
                 apply_decision_effects(decision,
                     [world EXCEPT !.decisions[i] = model_dump(decision)]))

update_decision(decision_id, body, world) ==
    IF ValidationError(body) # None THEN Handled(Response(422, ValidationError(body)), world)
    ELSE IF body.id # decision_id THEN Handled(Response(400, None), world)
    ELSE Replaced(body, world, IndexById(world.decisions, decision_id, 1))

delete_decision(decision_id, world) ==
    IF IndexById(world.decisions, decision_id, 1) = 0
    THEN Handled(Response(404, None), world)
    ELSE Handled(Response(200, None),
                 [world EXCEPT !.decisions =
                      SelectSeq(@, LAMBDA d : d.id # decision_id)])

\* api/forecast.py _get_state_snapshot: the stored world as it is, its dates
\* read back from their text by the engine
StoredMilestone(m) ==
    [id |-> m.id, name |-> Some(m.name), target_date |-> 100 * m.target_date[2]]

get_state_snapshot(world) ==
    [milestones |-> [i \in 1..Len(world.milestones) |-> StoredMilestone(world.milestones[i])],
     work_items |-> <<>>, dependencies |-> <<>>,
     risks |-> world.risks, decisions |-> world.decisions,
     scenario_delays |-> Absent, scenario_scope_changes |-> Absent,
     scenario_capacity_changes |-> Absent]

\* the get of a null effort_delta_days is None, and None > 0 a TypeError
NullEffort(d) ==
    d.decision_type = "change_scope" /\ d.status = "approved" /\ d.effort_delta_days = None

stored_baseline_forecast(milestone_id, world, current_date) ==
    IF /\ get_milestone(milestone_id, get_state_snapshot(world)) # None
       /\ \E i \in 1..Len(world.decisions) : NullEffort(world.decisions[i])
    THEN Response(500, None)
    ELSE get_baseline_forecast(milestone_id, get_state_snapshot(world), current_date)

\* ---- the stored world of the decision endpoints and the request bodies
StoredRisks == << Risk("risk_001", "open", Some(50), Some(400), Some("m1"), <<>>, Absent) >>

StoredMilestones ==
    << [id |-> "m1", name |-> "Launch", target_date |-> IsoFormat(30), work_items |-> {"w1"}] >>

DecisionWorld == World(StoredRisks, <<>>, StoredMilestones)

\* a body with these fields, and the same body with one of them left out
Variants(id, decision_type, subtype, milestone_name, fields) ==
    {DecisionBody(id, decision_type, subtype, "approved", milestone_name,
                  [f \in DOMAIN fields |-> IF f = g THEN None ELSE fields[f]]) :
        g \in DOMAIN fields \cup {"none"}}

ScopeFields ==
    [add_item_ids |-> Some(<<"w9">>), reason |-> Some("new requirement"),
     effort_delta_days |-> Some(500)]

MitigateFields == [risk_id |-> Some("risk_001"), action |-> Some("pair up")]

\* the bodies sent to PUT /decisions/{decision_id} as well
UpdateBodies ==
    {DecisionBody("dec_1", "change_scope", "REMOVE", "proposed", "Launch",
                  [remove_item_ids |-> Some(<<"w1">>), reason |-> Some("descoped")]),
     DecisionBody("dec_1", "change_scope", "REMOVE", "proposed", "Launch",
                  [remove_item_ids |-> Some(<<"w1">>)]),
     DecisionBody("dec_1", "change_schedule", "FREEZE_DATE", "approved", "Launch", <<>>),
     DecisionBody("dec_2", "mitigate_risk", "REDUCE_WIP", "approved", "", MitigateFields),
     DecisionBody("dec_2", "mitigate_risk", "REDUCE_WIP", "approved", "",
                  [risk_id |-> Some("risk_001")]),
     DecisionBody("dec_2", "accept_risk", "REDUCE_WIP", "approved", "", MitigateFields)}

DecisionBodies ==
    Variants("dec_1", "change_scope", "ADD", "Launch", ScopeFields)
    \cup Variants("dec_1", "change_schedule", "MOVE_TARGET_DATE", "Launch",
                  [new_target_date |-> Some(40)])
    \cup Variants("dec_1", "change_capacity", "ADD_PEOPLE", "",
                  [team_id |-> Some("team_a"), delta_fte |-> Some(0),
                   start_date |-> Some(10), method |-> Some("hire")])
    \cup Variants("dec_1", "change_priority", "PAUSE", "",
                  [item_ids |-> Some(<<"w1">>), reason |-> Some("on hold")])
    \cup Variants("dec_1", "accept_risk", "ACCEPT_UNTIL_DATE", "",
                  [risk_id |-> Some("risk_001"), acceptance_until |-> Some(20)])
    \cup Variants("dec_1", "mitigate_risk", "REDUCE_WIP", "", MitigateFields)
    \cup {DecisionBody("dec_1", "change_schedule", "CHANGE_CONFIDENCE_LEVEL", "approved",
                       "Launch", <<>>),
          DecisionBody("dec_1", "accept_risk", "ACCEPT_WITH_THRESHOLD", "approved", "",
                       [risk_id |-> Some("risk_001"), threshold |-> Some("")]),
          DecisionBody("dec_1", "change_scope", "PAUSE", "approved", "Launch", ScopeFields),
          DecisionBody("dec_1", "mitigate_risk", "ACCEPT_UNTIL_DATE", "approved", "",
                       MitigateFields),
          DecisionBody("dec_1", "change_priority", "PAUSE", "approved", "",
                       [item_ids |-> Some(<<>>), reason |-> Some("on hold")]),
          DecisionBody("dec_1", "change_scope", "REMOVE", "superseded", "Launch",
                       [remove_item_ids |-> Some(<<"w1">>), reason |-> Some("")])}
    \cup UpdateBodies

BodyIds == {"dec_1", "dec_2"}

\* ---- the state machine of the decision endpoints
CreateDecision(body) ==
    \E r \in {create_decision(body, store)} :
        /\ call' = Call("create_decision", "", body)
        /\ result' = r.response
        /\ store' = r.world
        /\ UNCHANGED <<state_snapshot, now, engine_vars, trail, threads>>

UpdateDecision(decision_id, body) ==
    \E r \in {update_decision(decision_id, body, store)} :
        /\ call' = Call("update_decision", decision_id, body)
        /\ result' = r.response
        /\ store' = r.world
        /\ UNCHANGED <<state_snapshot, now, engine_vars, trail, threads>>

DeleteDecision(decision_id) ==
    \E r \in {delete_decision(decision_id, store)} :
        /\ call' = Call("delete_decision", decision_id, <<>>)
        /\ result' = r.response
        /\ store' = r.world
        /\ UNCHANGED <<state_snapshot, now, engine_vars, trail, threads>>

\* GET /forecast/{milestone_id}: the engine is handed the stored world
StoredBaselineForecast(milestone_id) ==
    /\ call' = Call("stored_baseline_forecast", milestone_id, store.decisions)
    /\ result' = stored_baseline_forecast(milestone_id, store, now)
    /\ UNCHANGED <<state_snapshot, now, engine_vars, store_vars, threads>>

DecisionInit ==
    /\ state_snapshot = Snapshot(<<>>, <<>>, <<>>, <<>>)
    /\ now = 0
    /\ call = NoCall
    /\ result = [kind |-> "none"]
    /\ rules = DefaultRules
    /\ engine_state = EmptyEngineState
    /\ engine_call = NoEngineCall
    /\ engine_result = [kind |-> "none"]
    /\ store = DecisionWorld
    /\ trail = <<>>
    /\ threads = NoThreads

DecisionNext ==
    \/ \E body \in DecisionBodies : CreateDecision(body)
    \/ \E id \in BodyIds : \E body \in UpdateBodies : UpdateDecision(id, body)
    \/ \E id \in BodyIds : DeleteDecision(id)
    \/ \E m \in MilestoneIds : StoredBaselineForecast(m)

DecisionSpec == DecisionInit /\ [][DecisionNext]_vars

\* ============================================== decision-risk events API
\* backend/app/api/decision_risk_events.py: the module's engine, a snapshot
\* rebuilt from the stored world for every request, and the executor that
\* writes commands to the stored world.

\* {x["id"]: x for x in list}: a later dict with the same id replaces an earlier
ById(list) ==
    [id \in {list[i].id : i \in 1..Len(list)} |->
        list[CHOOSE i \in 1..Len(list) :
                 list[i].id = id /\ \A j \in 1..Len(list) : list[j].id = id => j <= i]]

\* get_current_state_snapshot; the work items, dependencies and ownerships of
\* the stored world are those of the fixture and no endpoint here writes them
get_current_state_snapshot(world) ==
    [work_items |-> EngineWorkItems, dependencies |-> EngineDependencies,
     risks |-> ById(world.risks), decisions |-> ById(world.decisions),
     ownerships |-> EngineOwnerships]

\* {**risk, **payload} at the first risk with the target's id
MergedAt(risks, i, payload) ==
    IF i = 0 THEN risks ELSE [risks EXCEPT ![i] = payload @@ @]

\* the executor as it would be if update_risk appended its payload
execute_command_appending(cmd, world) ==
    IF cmd.command_type \in {"create_risk", "update_risk"}
    THEN [world EXCEPT !.risks = Append(@, [id |-> cmd.target_id] @@ cmd.payload)]
    ELSE world

\* execute_command_placeholder: create_risk and update_risk change the risks;
\* create_issue writes a list no rule of the engine fills, set_next_date and
\* update_forecast only print, and no branch handles any other command type
execute_command_placeholder(cmd, world) ==
    CASE cmd.command_type = "create_risk" -> [world EXCEPT !.risks = Append(@, cmd.payload)]
      [] cmd.command_type = "update_risk" ->
             [world EXCEPT !.risks = MergedAt(@, IndexById(@, cmd.target_id, 1), cmd.payload)]
      [] cmd.command_type \in {"create_issue", "set_next_date", "update_forecast"} -> world
      [] OTHER -> world

\* for cmd in commands: execute_command_placeholder(cmd)
RECURSIVE ExecuteAll(_, _, _)
ExecuteAll(commands, i, world) ==
    IF i > Len(commands) THEN world
    ELSE ExecuteAll(commands, i + 1, execute_command_placeholder(commands[i], world))

\* an EventSubmission
Submission(event_type, dependency_id) == Event(event_type, dependency_id, None, None, None, None)

Submissions ==
    {Submission(t, Some(d)) : t \in {"dependency_blocked", "dependency_unblocked"},
                              d \in {"dep_001", "dep_002"}}
    \cup {Submission("dependency_blocked", Some("dep_404")),
          Submission("dependency_unblocked", None)}

\* stored worlds that hold no risk of a blocked dependency
StoredWorlds == {EmptyWorld, World(<< [id |-> "risk_001", status |-> "open"] >>, <<>>, <<>>)}

\* POST /events: the commands are returned and not executed
SubmitEvent(submission) ==
    \E r \in {process_event(rules, submission, get_current_state_snapshot(store), Today(now))} :
        /\ engine_call' = EngineCall("process_event", submission, <<>>)
        /\ engine_result' = [kind |-> r.kind, commands |-> r.commands, evaluated |-> r.evaluated]
        /\ rules' = r.rule_list
        /\ engine_state' = r.state
        /\ UNCHANGED <<now, forecast_vars, store_vars, threads>>

\* POST /events/execute: the commands are executed in order; trail keeps the
\* submissions executed so far with the commands each of them emitted
ProcessAndExecuteEvent(submission) ==
    /\ Len(trail) < MaxEvents
    /\ \E r \in {process_event(rules, submission, get_current_state_snapshot(store),
                               Today(now))} :
        /\ engine_call' = EngineCall("process_and_execute_event", submission, <<>>)
        /\ engine_result' = [kind |-> r.kind, commands |-> r.commands, evaluated |-> r.evaluated]
        /\ rules' = r.rule_list
        /\ engine_state' = r.state
        /\ store' = ExecuteAll(r.commands, 1, store)
        /\ trail' = Append(trail, [event |-> submission, commands |-> r.commands])
    /\ UNCHANGED <<now, forecast_vars, threads>>

StoreInit ==
    /\ state_snapshot = Snapshot(<<>>, <<>>, <<>>, <<>>)
    /\ now = 0
    /\ call = NoCall
    /\ result = [kind |-> "none"]
    /\ rules = DefaultRules
    /\ engine_state = EmptyEngineState
    /\ engine_call = NoEngineCall
    /\ engine_result = [kind |-> "none"]
    /\ store \in StoredWorlds
    /\ trail = <<>>
    /\ threads = NoThreads

StoreNext ==
    \/ \E s \in Submissions : SubmitEvent(s)
    \/ \E s \in Submissions : ProcessAndExecuteEvent(s)

StoreSpec == StoreInit /\ [][StoreNext]_vars

\* ===================================================================== claims
Direct == call.op = "forecastMilestone"

DirectOk == Direct /\ result.kind = "ok"

Endpoints == {"get_baseline_forecast", "get_scenario_forecast", "get_mitigation_preview",
              "get_forecast_summary"}

\* C1: after forecastMilestone returns, the caller's state_snapshot is
\* deep-equal to its value before the call, whatever the snapshot and options.
C1_SnapshotUnchanged == Direct => state_snapshot = call.before

\* C2: two calls of forecastMilestone with the same milestone_id, snapshot and
\* options return the same result, whatever the wall-clock time of each call.
C2_SameArgumentsSameResult ==
    [][(Direct /\ call' = call) => (result'.kind = result.kind /\ result'.value = result.value)]_vars

\* the work items a resolution started at the milestone's items can reach
\* through dependency lists, and those of them that lie on a cycle
DependsOn(state, a, b) ==
    \E i \in 1..Len(state.work_items) :
        /\ state.work_items[i].id = a
        /\ \E k \in 1..Len(state.work_items[i].dependencies) :
               state.work_items[i].dependencies[k] = b

ItemIds(state) == {state.work_items[i].id : i \in 1..Len(state.work_items)}

RECURSIVE ReachFrom(_, _, _)
ReachFrom(state, frontier, n) ==
    IF n = 0 THEN frontier
    ELSE ReachFrom(state,
                   frontier \cup {b \in ItemIds(state) : \E a \in frontier : DependsOn(state, a, b)},
                   n - 1)

Successors(state, a) == {b \in ItemIds(state) : DependsOn(state, a, b)}

OnCycle(state, a) ==
    a \in ReachFrom(state, Successors(state, a), Cardinality(ItemIds(state)))

HasReachableCycle(state, milestone_id) ==
    LET start == {state.work_items[i].id : i \in
                     {j \in 1..Len(state.work_items) :
                         state.work_items[j].milestone_id = Some(milestone_id)}}
    IN  \E a \in ReachFrom(state, start, Cardinality(ItemIds(state))) : OnCycle(state, a)

\* C3: when the dependency lists reachable from the milestone's work items
\* contain a cycle, forecastMilestone ends with an InvalidGraph error.
C3_CycleRaisesInvalidGraph ==
    (Direct /\ get_milestone(call.milestone_id, call.before) # None
            /\ HasReachableCycle(call.before, call.milestone_id))
        => result.kind = "InvalidGraph"

KnownMilestone(state, milestone_id) ==
    \E i \in 1..Len(state.milestones) : state.milestones[i].id = milestone_id

\* C4: a milestone_id that matches no milestone of the snapshot makes
\* forecastMilestone raise the not-found error with no ForecastResult, and
\* every forecast endpoint that reaches the engine answers 404 with no body.
C4_UnknownMilestoneNotFound ==
    (call.op # "none" /\ ~KnownMilestone(call.before, call.milestone_id)) =>
        /\ Direct => (result.kind = "ValueError" /\ result.value = None)
        /\ (call.op \in Endpoints
              /\ (call.op = "get_scenario_forecast" => call.args.scenario_type \in ScenarioTypes))
             => (result.status = 404 /\ result.body = None)

C4_Witness ==
    /\ call.op = "get_scenario_forecast"
    /\ call.milestone_id = "m9"
    /\ call.args.scenario_type = "scope_change"
    /\ result.status = 404

\* C5: a capacity multiplier of 0 or below is rejected or clamped before use:
\* no call divides by a multiplier that is not positive, and none ends in a
\* division error.
C5_MultiplierGuarded ==
    Direct => (result.kind # "ZeroDivisionError" /\ \A m \in result.internals.divisors : m > 0)

\* delta_p80_days of the dependency_delay scenario on w1 with delay d, on the
\* current snapshot
DeltaP80WithDelay(d) ==
    forecastMilestone("m1", state_snapshot, DelayScenario("w1", d), now)

NotDecreasing(smaller, larger) ==
    (smaller.kind = "ok" /\ larger.kind = "ok")
        => Val(smaller.value).delta_p80_days <= Val(larger.value).delta_p80_days

\* C6: for a fixed snapshot and an upstream target, delta_p80_days of the
\* dependency_delay scenario does not decrease when delay_days grows (0 being
\* no override).
C6_DelayMonotone ==
    \A d1 \in DelayValues : \A d2 \in {d \in DelayValues : d > d1} :
        NotDecreasing(DeltaP80WithDelay(d1), DeltaP80WithDelay(d2))

\* the resolver's environment and memo table of the last direct call
CallEnv == Env(call.milestone_id, result.work, call.args.external_team_history, now)

CallMemo == result.internals.memo

\* C7: a completed work item resolves to delay 0, and the edge to it costs
\* nothing, unless the dependency_delay override names that item; then the
\* override is applied although the item is completed.
C7_CompletedResolvesToZero ==
    DirectOk =>
        \A id \in DOMAIN CallMemo :
            (MapHas(CallEnv.wi_lookup, id) /\ CallEnv.wi_lookup[id].status = "completed") =>
                /\ ~MapHas(CallEnv.scenario_delays, id) => CallMemo[id] = 0
                /\ MapHas(CallEnv.scenario_delays, id) => CallMemo[id] >= CallEnv.scenario_delays[id]
                /\ \A x \in DOMAIN CallEnv.wi_lookup :
                       calculate_realistic_delay(CallEnv, CallEnv.wi_lookup[x],
                                                 CallEnv.wi_lookup[id], None) = 0

C7_Witness ==
    /\ DirectOk
    /\ call.args = DelayScenario("w2", 700)
    /\ MapHas(CallEnv.wi_lookup, "w2")
    /\ CallEnv.wi_lookup["w2"].status = "completed"
    /\ MapHas(CallMemo, "w2")
    /\ CallMemo["w2"] = 700

\* C8: the uncertainty buffer lies in [0, 12] days, p80_date is p50_date plus
\* the buffer and so never before p50_date, and p50_date is the target date
\* plus the four delays, without the buffer.
C8_BufferBounds ==
    DirectOk =>
        LET v == Val(result.value)
            x == result.internals
        IN  /\ 0 <= x.uncertainty_buffer
            /\ x.uncertainty_buffer <= 1200
            /\ v.p80_date >= v.p50_date
            /\ v.p80_date = v.p50_date + x.uncertainty_buffer
            /\ v.p50_date = Val(get_milestone(call.milestone_id, call.before)).target_date
                            + x.dep_delay_days + x.risk_delay_days
                            + x.scope_delay_days + x.capacity_delay_days

C8_Witness ==
    /\ DirectOk
    /\ Len(call.before.risks) >= 7
    /\ result.internals.uncertainty_buffer = 1200
    /\ Val(result.value).p80_date = Val(result.value).p50_date + 1200

\* the risks the last direct call worked on, with the impact and probability
\* the aggregator reads from each
WorkRisks == {result.work.risks[i] : i \in 1..Len(result.work.risks)}

DelayAs(risk, status) ==
    RiskDelay(status, ImpactDays(risk), OrElse(risk.probability, DEFAULT_PROBABILITY))

RiskCauses == {"Materialised risk", "Open risk", "Mitigating risk"}

\* C10: every risk adds at most 15 days to the milestone's risk total, and the
\* days recorded for it in the contribution breakdown are at most 15 as well.
C10_RiskContributionCapped ==
    DirectOk =>
        /\ \A r \in WorkRisks : DelayAs(r, r.status) <= 1500
        /\ \A i \in 1..Len(Val(result.value).contribution_breakdown) :
               Val(result.value).contribution_breakdown[i].cause.kind \in RiskCauses
                   => Val(result.value).contribution_breakdown[i].days <= 1500

\* a risk is linked to the milestone by its milestone_id, or by an affected
\* item that is a work item of the milestone
LinkedRisk(state, milestone_id, risk) ==
    \/ risk.milestone_id = Some(milestone_id)
    \/ \E k \in 1..Len(risk.affected_items) : \E j \in 1..Len(state.work_items) :
           /\ state.work_items[j].id = risk.affected_items[k]
           /\ state.work_items[j].milestone_id = Some(milestone_id)

\* the policy table, as a multiplier in hundredths of a percent
PolicyMultiplier(risk) ==
    CASE risk.status = "materialised" -> 10000
      [] risk.status = "open" -> OrElse(risk.probability, DEFAULT_PROBABILITY) * OPEN_FACTOR
      [] risk.status = "mitigating" -> 100 * MITIGATING_FACTOR
      [] OTHER -> 0

\* impact_days less the hypothetical reduction, floored at 0, times the multiplier
PolicyDelay(risk) == (ImpactDays(risk) * PolicyMultiplier(risk)) \div 10000

PolicySum(state, milestone_id) ==
    SumSeq([i \in 1..Len(state.risks) |->
               IF LinkedRisk(state, milestone_id, state.risks[i])
               THEN PolicyDelay(state.risks[i]) ELSE 0], 1)

CappedPolicySum(state, milestone_id) ==
    SumSeq([i \in 1..Len(state.risks) |->
               IF LinkedRisk(state, milestone_id, state.risks[i])
               THEN Min(PolicyDelay(state.risks[i]), RISK_CAP) ELSE 0], 1)

C11_CapWitness ==
    /\ DirectOk
    /\ \E i \in 1..Len(result.work.risks) :
           /\ result.work.risks[i].status = "materialised"
           /\ ImpactDays(result.work.risks[i]) = 2000
    /\ result.internals.risk_delay_days = RISK_CAP

\* the chain of test_dependency_delay_fix.py, without risks or decisions
ChainSnapshot == Snapshot(ChainItems(Upstream), <<>>, <<>>, <<>>)

ChainRequest ==
    [scenario_type |-> "dependency_delay",
     params |-> [NoParams EXCEPT !.work_item_id = Some("w1"), !.delay_days = Some(700)]]

\* C12: in the chain w1 (other milestone, in progress, 3 days remaining) <-
\* w2 <- w3, a dependency_delay scenario of 7 days on w1 makes the scenario's
\* delta_p80_days exceed the baseline's by more than 5 days.
C12_ChainDelayPropagates ==
    (call.op = "get_scenario_forecast" /\ call.milestone_id = "m1"
        /\ call.before = ChainSnapshot /\ call.args = ChainRequest)
    => (result.status = 200 /\ Val(result.body).impact_days > 5)

\* what the two runs return on the chain: +8 days at P80 for the baseline,
\* +12 days for the scenario
C12_ChainImpactIsFour ==
    (call.op = "get_scenario_forecast" /\ call.milestone_id = "m1"
        /\ call.before = ChainSnapshot /\ call.args = ChainRequest)
    => /\ result.status = 200
       /\ Val(result.body).baseline.delta_p80_days = 8
       /\ Val(result.body).scenario.delta_p80_days = 12
       /\ Val(result.body).impact_days = 4

\* the scope override the forecast worked with, 0 when there is none
ScopeOverride(state, milestone_id) ==
    IF MapHas(state.scenario_scope_changes.entries, milestone_id)
    THEN state.scenario_scope_changes.entries[milestone_id] ELSE 0

ApprovedIncrease(d) ==
    IF d.decision_type = "change_scope" /\ d.status = "approved"
       /\ OrElse(d.effort_delta_days, 0) > 0
    THEN Val(d.effort_delta_days) ELSE 0

\* the effort-days of the approved change_scope decisions that add scope
ApprovedIncreases(state) ==
    SumSeq([i \in 1..Len(state.decisions) |-> ApprovedIncrease(state.decisions[i])], 1)

\* C13: a scope increase of d > 0 effort-days adds d days to the total delay,
\* whether it comes from the scope_change override or from an approved
\* change_scope decision; a decision that is not approved adds nothing.
C13_ScopeIncreaseAddsDays ==
    (DirectOk /\ ScopeOverride(result.work, call.milestone_id) >= 0) =>
        /\ result.internals.scope_delay_days
               = ScopeOverride(result.work, call.milestone_id) + ApprovedIncreases(result.work)
        /\ result.internals.total_delay_days
               = result.internals.dep_delay_days + result.internals.risk_delay_days
                 + result.internals.scope_delay_days + result.internals.capacity_delay_days

\* what is computed: the override in full, an approved decision at 80 percent
C13_DecisionDiscounted ==
    (DirectOk /\ ScopeOverride(result.work, call.milestone_id) >= 0) =>
        result.internals.scope_delay_days
            = ScopeOverride(result.work, call.milestone_id)
              + Pct(ApprovedIncreases(result.work), SCOPE_FACTOR)

\* the contribution of one risk as the snapshot has it, and with its impact
\* reduced by r
Contribution(risk) ==
    RiskDelay(risk.status, ImpactDays(risk), OrElse(risk.probability, DEFAULT_PROBABILITY))

ReducedBy(risk, r) ==
    [risk EXCEPT !.hypothetical_mitigation =
                     Present(MapPut(@.entries, "impact_reduction_days", r))]

\* contribution without the reduction minus contribution with it, over the
\* risks of the milestone that carry the id
ContributionDifference(state, milestone_id, risk_id, r) ==
    SumSeq([i \in 1..Len(state.risks) |->
               IF state.risks[i].id = risk_id /\ LinkedRisk(state, milestone_id, state.risks[i])
               THEN Contribution(state.risks[i]) - Contribution(ReducedBy(state.risks[i], r))
               ELSE 0], 1)

PreviewDifference ==
    ContributionDifference(call.before, call.milestone_id, call.args.risk_id,
                           Val(call.args.reduction))

\* improvement_days is the difference of the two delta_p80_days, it is the
\* difference of the risk's two contributions to within a day, and the two
\* runs differ in nothing else: same buffer, P50 apart by that difference
ImprovementMatches(body, difference) ==
    /\ body.improvement_days
           = body.current.delta_p80_days - body.with_mitigation.delta_p80_days
    /\ Abs(100 * body.improvement_days - difference) < 100
    /\ body.current.p50_date - body.with_mitigation.p50_date = difference
    /\ body.current.p80_date - body.current.p50_date
           = body.with_mitigation.p80_date - body.with_mitigation.p50_date

\* C14: forecast_mitigation_impact with reduction r returns improvement_days =
\* current.delta_p80_days - with_mitigation.delta_p80_days, equal within day
\* rounding to the named risk's contribution without the reduction minus its
\* contribution with impact reduced by r; the runs differ in nothing else.
C14_ImprovementIsRiskDifference ==
    (call.op = "get_mitigation_preview" /\ result.status = 200 /\ call.args.reduction # None)
        => ImprovementMatches(Val(result.body), PreviewDifference)

\* the same for a reduction that is not 0
C14_NonZeroReduction ==
    (call.op = "get_mitigation_preview" /\ result.status = 200 /\ call.args.reduction # None
        /\ call.args.reduction # Some(0))
        => ImprovementMatches(Val(result.body), PreviewDifference)

C14_NonZeroWitness ==
    /\ call.op = "get_mitigation_preview"
    /\ result.status = 200
    /\ call.args.reduction = Some(200)
    /\ Val(result.body).improvement_days = 2

\* ------------------------------------------------------------ the rule engine
Processed == engine_call.op = "process_event"

\* the commands execute returns for the rules that match, first rule first
RECURSIVE CommandsOfMatching(_, _, _, _)
CommandsOfMatching(rule_list, event, state, today) ==
    IF rule_list = <<>> THEN <<>>
    ELSE (IF Matches(Head(rule_list), event, state)
          THEN Execute(Head(rule_list), event, state, today) ELSE <<>>)
         \o CommandsOfMatching(Tail(rule_list), event, state, today)

MatchedRules(evaluated) == {i \in 1..Len(evaluated) : evaluated[i].matched}

\* C15: process_event calls matches for every rule of the list in list order
\* and returns the commands of execute of exactly the rules that matched,
\* concatenated in that order; add_rule puts the rule after all the rules
\* already in the list.
C15_RulesInOrder ==
    /\ Processed =>
          /\ Len(engine_result.evaluated) = Len(engine_call.rules_before)
          /\ \A i \in 1..Len(engine_call.rules_before) :
                /\ engine_result.evaluated[i].rule = engine_call.rules_before[i].name
                /\ engine_result.evaluated[i].matched =
                       Matches(engine_call.rules_before[i], engine_call.event, engine_state)
          /\ engine_result.commands =
                 CommandsOfMatching(engine_call.rules_before, engine_call.event,
                                    engine_state, engine_call.today)
          /\ rules = engine_call.rules_before
    /\ engine_call.op = "add_rule" =>
          /\ Len(rules) = Len(engine_call.rules_before) + 1
          /\ rules[Len(rules)] = engine_call.rule
          /\ \A i \in 1..Len(engine_call.rules_before) : rules[i] = engine_call.rules_before[i]

\* an event that three rules match, two of them added with add_rule, is processed
C15_Witness ==
    /\ Processed
    /\ Len(engine_call.rules_before) = Len(DefaultRules) + 2
    /\ Cardinality(MatchedRules(engine_result.evaluated)) = 3
    /\ Len(engine_result.commands) = 5
    /\ engine_result.commands[1].rule_name = "rule_1_dependency_blocked"
    /\ engine_result.commands[4].rule_name # engine_result.commands[5].rule_name

StubbedRules ==
    {"rule_3_forecast_threshold_breached", "rule_8_change_approved",
     "rule_9_decision_superseded"}

\* the rules of the list that match the event of the call
MatchingRules ==
    {i \in 1..Len(engine_call.rules_before) :
        Matches(engine_call.rules_before[i], engine_call.event, engine_state)}

\* C16: for an event that no rule matches, and for an event matched only by
\* stubbed rules, process_event returns an empty list of commands, not None
\* and not an error, whatever the state.
C16_EmptyForUnmatched ==
    (Processed /\ \A i \in MatchingRules : engine_call.rules_before[i].name \in StubbedRules)
        => (engine_result.kind = "ok" /\ engine_result.commands = <<>>)

\* a forecast_threshold_breached event, matched by the stubbed rule 3 alone,
\* is processed in a state that holds risks and decisions
C16_Witness ==
    /\ Processed
    /\ engine_call.event.event_type = "forecast_threshold_breached"
    /\ engine_state # EmptyEngineState
    /\ Cardinality(MatchingRules) = 1
    /\ engine_result.commands = <<>>

\* an event of a type no rule listens to is processed
C16_UnmatchedWitness ==
    /\ Processed
    /\ engine_call.event.event_type = "risk_created"
    /\ MatchingRules = {}
    /\ engine_result.commands = <<>>

\* the commands of the result that one rule issued, in the order of the result
CommandsOf(rule_name) == SelectSeq(engine_result.commands, LAMBDA c : c.rule_name = rule_name)

AsConstructed == engine_call.rules_before = DefaultRules

BlockedEvent ==
    Processed /\ engine_call.event.event_type \in {"dependency_blocked", "dependency_unavailable"}

KnownDependency ==
    /\ engine_call.event.dependency_id # None
    /\ Val(engine_call.event.dependency_id) \in DOMAIN engine_state.dependencies

\* the actors that own an entity, "default_owner" when nobody does
OwnersOf(entity_id) ==
    IF \E i \in 1..Len(engine_state.ownerships) :
            engine_state.ownerships[i].entity_id = entity_id
    THEN {OrElse(engine_state.ownerships[i].owner_actor_id, "default_owner") :
            i \in {j \in 1..Len(engine_state.ownerships) :
                     engine_state.ownerships[j].entity_id = entity_id}}
    ELSE {"default_owner"}

BlockedThree(cmds, dependency_id) ==
    /\ Len(cmds) = 3
    /\ cmds[1].command_type =
          IF ("risk_dep_blocked_" \o dependency_id) \in DOMAIN engine_state.risks
          THEN "update_risk" ELSE "create_risk"
    /\ cmds[1].target_id = "risk_dep_blocked_" \o dependency_id
    /\ cmds[1].payload.status = "materialised"
    /\ cmds[2].command_type = "set_next_date"
    /\ cmds[2].target_id \in OwnersOf(engine_state.dependencies[dependency_id].from_id)
    /\ cmds[2].payload.owner_id = cmds[2].target_id
    /\ cmds[3].command_type = "escalate_risk"

C17_CreateWitness ==
    /\ BlockedEvent /\ KnownDependency /\ AsConstructed
    /\ engine_result.commands[1].command_type = "create_risk"
    /\ engine_result.commands[2].target_id = "default_owner"

\* a blocked event that names no dependency, or one the state does not hold
C17_UnknownWitness ==
    /\ BlockedEvent /\ engine_call.event.dependency_id = Some("dep_404")
    /\ engine_state # EmptyEngineState /\ engine_result.commands = <<>>

ApprovedDecision == DictGet(engine_state.decisions, engine_call.event.decision_id)

\* a decision_approved event for a decision of the state, of the given type,
\* whose risk_id names a risk of the state
ApprovedFor(decision_type) ==
    /\ Processed /\ engine_call.event.event_type = "decision_approved"
    /\ ApprovedDecision # None
    /\ Val(ApprovedDecision).decision_type = decision_type
    /\ Val(ApprovedDecision).risk_id # None
    /\ Val(Val(ApprovedDecision).risk_id) \in DOMAIN engine_state.risks

\* the day a date of a decision stands for; text that is no date stands for
\* today plus the fallback
DateOf(value, today, fallback) ==
    IF Val(value)[1] = "text" THEN today + fallback ELSE Val(value)[2]

\* min(acceptance boundary date, today + 7 days); today + 7 days without one
ReviewBoundary(decision, today) ==
    IF decision.acceptance_until = None THEN today + 7
    ELSE Min(DateOf(decision.acceptance_until, today, 30), today + 7)

AcceptedPair(cmds, decision, today) ==
    /\ Len(cmds) = 2
    /\ cmds[1].command_type = "update_risk"
    /\ cmds[1].target_id = Val(decision.risk_id)
    /\ cmds[1].payload.status = "accepted"
    /\ cmds[2].command_type = "set_next_date"
    /\ cmds[1].payload.next_date = <<"iso", ReviewBoundary(decision, today)>>
    /\ cmds[2].payload.next_date = <<"iso", ReviewBoundary(decision, today)>>

C18_NearWitness ==
    /\ ApprovedFor("accept_risk") /\ AsConstructed
    /\ Val(ApprovedDecision).acceptance_until = Some(<<"iso", 3>>)
    /\ engine_result.commands[1].payload.next_date = <<"iso", 3>>
    /\ engine_result.commands[2].payload.suppress_escalation_until = <<"iso", 3>>

\* a decision_approved event for a decision of the state, of the given type,
\* that names no risk or a risk the state does not hold
ApprovedWithoutRisk(decision_type) ==
    /\ Processed /\ engine_call.event.event_type = "decision_approved"
    /\ ApprovedDecision # None
    /\ Val(ApprovedDecision).decision_type = decision_type
    /\ \/ ~Truthy(Val(ApprovedDecision).risk_id)
       \/ Val(Val(ApprovedDecision).risk_id) \notin DOMAIN engine_state.risks

MitigatingFirst(cmds, decision) ==
    /\ cmds[1].command_type = "update_risk"
    /\ cmds[1].target_id = Val(decision.risk_id)
    /\ cmds[1].payload.status = "mitigating"

ForecastTrigger(command, decision) ==
    /\ command.command_type = "update_forecast"
    /\ command.payload.trigger = "mitigation_completion"
    /\ command.payload.risk_id = Val(decision.risk_id)

MitigationCommands(cmds, decision, today) ==
    IF decision.due_date # None
    THEN /\ Len(cmds) = 3
         /\ MitigatingFirst(cmds, decision)
         /\ cmds[2].command_type = "set_next_date"
         /\ cmds[2].payload.next_date = <<"iso", DateOf(decision.due_date, today, 14)>>
         /\ ForecastTrigger(cmds[3], decision)
    ELSE /\ Len(cmds) = 2
         /\ MitigatingFirst(cmds, decision)
         /\ ForecastTrigger(cmds[2], decision)

\* C19: an approved mitigate_risk decision whose risk is in the state gives,
\* in order, one update_risk with status mitigating, one set_next_date with
\* the decision's due date if and only if the decision has a due_date, and one
\* update_forecast trigger; a decision without risk_id, or whose risk is not
\* in the state, gives no command.
C19_MitigateRisk ==
    /\ ApprovedFor("mitigate_risk") =>
          /\ AsConstructed => engine_result.commands = CommandsOf("rule_5_mitigate_risk_approved")
          /\ MitigationCommands(CommandsOf("rule_5_mitigate_risk_approved"),
                                Val(ApprovedDecision), engine_call.today)
    /\ ApprovedWithoutRisk("mitigate_risk") =>
          /\ CommandsOf("rule_5_mitigate_risk_approved") = <<>>
          /\ AsConstructed => engine_result.commands = <<>>

\* a mitigation due on day 14 is approved: three commands, the second for day 14
C19_Witness ==
    /\ ApprovedFor("mitigate_risk") /\ AsConstructed
    /\ Val(ApprovedDecision).due_date = Some(<<"iso", 14>>)
    /\ Len(engine_result.commands) = 3
    /\ engine_result.commands[2].command_type = "set_next_date"
    /\ engine_result.commands[2].payload.next_date = <<"iso", 14>>

\* a mitigation without a due date is approved: no set_next_date
C19_NoDueWitness ==
    /\ ApprovedFor("mitigate_risk") /\ AsConstructed
    /\ Val(ApprovedDecision).due_date = None
    /\ Len(engine_result.commands) = 2

\* a mitigation whose risk the state does not hold is approved
C19_NoRiskWitness ==
    /\ ApprovedWithoutRisk("mitigate_risk") /\ AsConstructed
    /\ Val(ApprovedDecision).risk_id = Some("risk_404")
    /\ engine_result.commands = <<>>

UnblockedEvent ==
    Processed /\ engine_call.event.event_type \in {"dependency_unblocked", "dependency_available"}

UnblockedCommands(cmds, dependency_id) ==
    IF ("risk_dep_blocked_" \o dependency_id) \in DOMAIN engine_state.risks
    THEN /\ Len(cmds) = 2
         /\ cmds[1].command_type = "set_risk_status"
         /\ cmds[1].target_id = "risk_dep_blocked_" \o dependency_id
         /\ cmds[1].payload.status = "closed"
         /\ cmds[2].command_type = "recompute_forecast"
    ELSE /\ Len(cmds) = 1
         /\ cmds[1].command_type = "recompute_forecast"

C20_NoRiskWitness ==
    /\ UnblockedEvent /\ AsConstructed
    /\ engine_call.event.dependency_id = Some("dep_002")
    /\ Len(engine_result.commands) = 1

\* an unblocked event that names no dependency
C20_NoIdWitness ==
    /\ UnblockedEvent /\ AsConstructed
    /\ engine_call.event.dependency_id = None
    /\ engine_result.commands = <<>>

\* the same event is processed again by the same rules
ProcessedAgain ==
    /\ Processed /\ engine_call'.op = "process_event"
    /\ engine_call'.event = engine_call.event
    /\ engine_call'.rules_before = engine_call.rules_before

\* C21: for a fixed event and state the engine returns the same commands on
\* every call - same number, order, command_type, target_id, rule_name and
\* payload - whenever the call is made.
C21_SameCommandsEveryCall ==
    [][ProcessedAgain => engine_result'.commands = engine_result.commands]_vars

\* what does hold: number, order, command_type, target_id and rule_name are
\* the same on every call, and so is the payload on calls of the same day
C21_SameShapeEveryCall ==
    [][ProcessedAgain =>
         /\ Len(engine_result'.commands) = Len(engine_result.commands)
         /\ \A i \in 1..Len(engine_result.commands) :
              /\ engine_result'.commands[i].command_type = engine_result.commands[i].command_type
              /\ engine_result'.commands[i].target_id = engine_result.commands[i].target_id
              /\ engine_result'.commands[i].rule_name = engine_result.commands[i].rule_name
              /\ engine_call'.today = engine_call.today =>
                   engine_result'.commands[i].payload = engine_result.commands[i].payload]_vars

\* a step that is a call of process_event: the clock stands still and the
\* call recorded afterwards is a process_event
ProcessEventStep == engine_call'.op = "process_event" /\ now' = now

\* C22: process_event changes neither its inputs nor the engine: after any
\* call every collection of the StateSnapshot, the event and the rule list
\* are as before, and nothing was written to the store; the commands only
\* describe what is to be done.
C22_InputsUnchanged ==
    [][ProcessEventStep =>
         /\ engine_state' = engine_state
         /\ rules' = rules
         /\ rules' = engine_call'.rules_before
         /\ store' = store]_vars

\* a create_risk was returned and the snapshot still holds no such risk
C22_Witness ==
    /\ Processed
    /\ engine_state # EmptyEngineState
    /\ rules = engine_call.rules_before
    /\ Len(engine_result.commands) = 3
    /\ engine_result.commands[1].command_type = "create_risk"
    /\ engine_result.commands[1].target_id \notin DOMAIN engine_state.risks
    /\ store = EmptyWorld

\* ----------------------------------------------------- concurrent forecasts
Finished(t) == threads[t].pc = "done"

\* C23: two forecastMilestone calls running at the same time on the same
\* snapshot do not interfere: whatever their options and however their steps
\* interleave, each returns the result it returns when run alone.
C23_NoInterference ==
    \A t \in DOMAIN threads : Finished(t) => threads[t].result = threads[t].alone

NoSharedDicts(snapshot) ==
    /\ ~snapshot.scenario_delays.present
    /\ ~snapshot.scenario_scope_changes.present
    /\ ~snapshot.scenario_capacity_changes.present
    /\ \A i \in 1..Len(snapshot.risks) : ~snapshot.risks[i].hypothetical_mitigation.present

\* what does hold: on a snapshot that carries none of the scenario dicts and
\* no risk with a hypothetical_mitigation dict, each call returns what it
\* returns alone
C23_NoInterferenceWithoutSharedDicts ==
    NoSharedDicts(call.before) => C23_NoInterference

\* both calls have finished, one of them a scenario, on such a snapshot
C23_BothFinished ==
    /\ NoSharedDicts(call.before)
    /\ \A t \in DOMAIN threads : Finished(t)
    /\ threads["A"].call.options.scenario # None
    /\ threads["B"].call.options = NoOptions
    /\ threads["A"].result # threads["B"].result

\* ---------------------------------------------------------------- C24
\* the fields the validator's messages name as required for a pair
Mandatory(decision_type, subtype) ==
    CASE decision_type = "change_scope" -> {"reason"}
      [] decision_type = "change_schedule" ->
             IF subtype = "MOVE_TARGET_DATE" THEN {"new_target_date"}
             ELSE IF subtype = "CHANGE_CONFIDENCE_LEVEL" THEN {"commitment_percentile"}
             ELSE {}
      [] decision_type = "change_capacity" -> {"team_id", "delta_fte", "start_date", "method"}
      [] decision_type = "change_priority" -> {"item_ids", "reason"}
      [] decision_type = "accept_risk" ->
             {"risk_id"} \cup (IF subtype = "ACCEPT_UNTIL_DATE" THEN {"acceptance_until"}
                               ELSE IF subtype = "ACCEPT_WITH_THRESHOLD" THEN {"threshold"}
                               ELSE {})
      [] decision_type = "mitigate_risk" -> {"risk_id", "action"}

Given(d, f) ==
    /\ d[f] # None
    /\ f \in {"reason", "team_id", "risk_id", "threshold", "action"} => Val(d[f]) # ""
    /\ f \in {"item_ids", "add_item_ids", "remove_item_ids"} => Len(Val(d[f])) > 0

Malformed(d) ==
    \/ d.subtype \notin valid_subtypes(d.decision_type)
    \/ \E f \in Mandatory(d.decision_type, d.subtype) : ~Given(d, f)
    \/ d.decision_type = "change_scope" /\ ~Given(d, "add_item_ids")
                                        /\ ~Given(d, "remove_item_ids")

AllWellFormed(decisions) ==
    \A i \in 1..Len(decisions) : ~Malformed(model_validate(decisions[i]))

C24_HandedWitness ==
    /\ call.op = "stored_baseline_forecast"
    /\ Len(call.args) = 2
    /\ result.status = 200

\* ---------------------------------------------------------------- C25
\* the largest number of a set of delays, 0 for the empty set
Largest(S) == IF S = {} THEN 0 ELSE CHOOSE x \in S : \A y \in S : y <= x

\* the upstream items of wi that exist
UpstreamsOf(env, wi) ==
    {IncomingOf(wi)[k] : k \in 1..Len(IncomingOf(wi))} \cap DOMAIN env.wi_lookup

EdgeCost(env, wi, upstream_id) ==
    calculate_realistic_delay(env, wi, env.wi_lookup[upstream_id],
                              EdgeProperties(env, wi, upstream_id))

\* the longest-path value of an item, written without a memo table: its own
\* delay or the costliest chain above it, every edge of the chain counted
RECURSIVE LongestPath(_, _)
LongestPath(env, id) ==
    IF ~MapHas(env.wi_lookup, id) \/ CompletedWithoutOverride(env, env.wi_lookup[id]) THEN 0
    ELSE Max(OwnDelay(env, env.wi_lookup[id]),
             Largest({LongestPath(env, u) + EdgeCost(env, env.wi_lookup[id], u) :
                        u \in UpstreamsOf(env, env.wi_lookup[id])}))

Incomplete(items) == {items[i] : i \in {k \in 1..Len(items) : items[k].status # "completed"}}

CallItems == Incomplete(get_work_items_for_milestone(call.milestone_id, result.work))

\* a direct call has returned and the clock still reads what the call read
DirectReturned == DirectOk /\ now = 0

WithEdges ==
    result.internals.dep_delay_days
        = Largest(UNION {{LongestPath(CallEnv, u) + EdgeCost(CallEnv, wi, u) :
                             u \in UpstreamsOf(CallEnv, wi)} : wi \in CallItems})

BelowFirstEdge ==
    /\ \A id \in DOMAIN CallMemo : CallMemo[id] = LongestPath(CallEnv, id)
    /\ result.internals.dep_delay_days
           = Largest(UNION {{LongestPath(CallEnv, u) : u \in UpstreamsOf(CallEnv, wi)} :
                                wi \in CallItems})

\* C25: the dependency delay of the milestone is the maximum, over its
\* incomplete work items and their upstream dependencies, of the resolved
\* (longest-path) delay of the upstream item plus the incremental delay of
\* the edge to it.
C25_LongestPathWithEdges == DirectReturned => WithEdges

\* what the model finds instead: every resolved item has its longest-path
\* value, a shared ancestor one value for all its paths, and the milestone's
\* delay is the largest resolved delay of a direct upstream item, without the
\* cost of the edge from the milestone's own item
C25_LongestPathBelowFirstEdge == DirectReturned => BelowFirstEdge

\* a diamond: two items of the milestone reach the same ancestor
C25_DiamondWitness ==
    /\ DirectOk
    /\ \E a \in CallItems : \E b \in CallItems :
           a.id # b.id /\ UpstreamsOf(CallEnv, a) \cap UpstreamsOf(CallEnv, b) # {}
    /\ result.internals.dep_delay_days > 0

\* ---------------------------------------------------------------- C26
\* the values of the estimators whose condition the item meets
Estimators(env, wi) ==
    (IF MapHas(env.scenario_delays, wi.id) THEN {env.scenario_delays[wi.id]} ELSE {})
    \cup (IF IsSome(wi.remaining_days) /\ Val(wi.remaining_days) > 0
          THEN {Val(wi.remaining_days)} ELSE {})
    \cup (IF IsSome(wi.completion_percentage)
          THEN {Pct(OrElse(wi.estimated_days, 0), 100 - Val(wi.completion_percentage))}
          ELSE {})
    \cup (IF wi.status = "blocked" THEN {BLOCKED_DELAY} ELSE {})
    \cup (IF wi.status = "in_progress" /\ OrElse(wi.estimated_days, 0) > 0
          THEN {Pct(Val(wi.estimated_days), 50)} ELSE {})

\* the items the last direct call resolved without the completed short cut
ResolvedItems ==
    {CallEnv.wi_lookup[id] : id \in DOMAIN CallMemo \cap DOMAIN CallEnv.wi_lookup}
    \ {wi \in {CallEnv.wi_lookup[id] : id \in DOMAIN CallEnv.wi_lookup} :
         CompletedWithoutOverride(CallEnv, wi)}

\* C26: the own delay of every incomplete item the call resolved is at least
\* the value of each estimator that applies to the item and equals one of
\* them.
C26_MaxOfApplicableEstimators ==
    DirectOk =>
        \A wi \in ResolvedItems :
            /\ \A e \in Estimators(CallEnv, wi) : OwnDelay(CallEnv, wi) >= e
            /\ Estimators(CallEnv, wi) # {} => OwnDelay(CallEnv, wi) \in Estimators(CallEnv, wi)

\* what the model finds instead: the own delay is one of the applicable
\* values (0 when none applies) and at least the scenario override, but the
\* other four are tried in order and only the first that applies is taken
C26_OneOfApplicableEstimators ==
    DirectOk =>
        \A wi \in ResolvedItems :
            /\ OwnDelay(CallEnv, wi) \in Estimators(CallEnv, wi) \cup {0}
            /\ MapHas(CallEnv.scenario_delays, wi.id)
                   => OwnDelay(CallEnv, wi) >= CallEnv.scenario_delays[wi.id]

\* a resolved item to which two estimators with different values apply
C26_TwoEstimatorsWitness ==
    /\ DirectOk
    /\ \E wi \in ResolvedItems : Cardinality(Estimators(CallEnv, wi)) > 1

\* ---------------------------------------------------------------- C27
Breakdown == Val(result.value).contribution_breakdown

\* what an entry for a change of scope describes
RemovedScope(cause) ==
    \/ cause.kind = "Scenario scope" /\ cause.ref = "remove"
    \/ cause.kind = "Scenario scope reduction"

AddedScope(cause) ==
    \/ cause.kind = "Scenario scope" /\ cause.ref = "add"
    \/ cause.kind \in {"Scenario scope increase", "Recent scope change"}

\* C27: in the contribution breakdown the sign of days gives the direction:
\* every entry for removed scope (an improvement) has days < 0 and every
\* entry for added scope (a slip) has days > 0.
C27_SignEncodesDirection ==
    DirectOk =>
        \A i \in 1..Len(Breakdown) :
            /\ RemovedScope(Breakdown[i].cause) => Breakdown[i].days < 0
            /\ AddedScope(Breakdown[i].cause) => Breakdown[i].days > 0

\* what the model finds instead: the entry the scope calculation writes has
\* the sign of the change, the entry the perturbation writes is never negative
C27_SignOfCalculatedEntries ==
    DirectOk =>
        \A i \in 1..Len(Breakdown) :
            /\ Breakdown[i].cause.kind = "Scenario scope reduction" => Breakdown[i].days < 0
            /\ AddedScope(Breakdown[i].cause) => Breakdown[i].days > 0
            /\ Breakdown[i].cause.kind = "Scenario scope" => Breakdown[i].days > 0

\* a scope_change scenario that removes scope was forecast
C27_RemovedScopeWitness ==
    /\ DirectOk
    /\ \E i \in 1..Len(Breakdown) : Breakdown[i].cause.kind = "Scenario scope reduction"
    /\ \E i \in 1..Len(Breakdown) : RemovedScope(Breakdown[i].cause) /\ Breakdown[i].days > 0

\* ---------------------------------------------------------------- C28
\* the places of the trail where a submission of this type names dependency d
EventsFor(types, d) ==
    {i \in 1..Len(trail) : trail[i].event.event_type \in types
                           /\ trail[i].event.dependency_id = Some(d)}

BlockedFor(d) == EventsFor({"dependency_blocked"}, d)

UnblockedFor(d) == EventsFor({"dependency_unblocked", "dependency_available"}, d)

StoredRisksOf(d) == {i \in 1..Len(store.risks) : store.risks[i].id = BlockedRiskId(d)}

\* the command types a submission emitted for the risk of dependency d
EmittedFor(i, d) ==
    {trail[i].commands[k].command_type :
        k \in {j \in 1..Len(trail[i].commands) :
                 trail[i].commands[j].target_id = BlockedRiskId(d)
                 /\ trail[i].commands[j].command_type \in {"create_risk", "update_risk"}}}

BlockedThenUnblocked(d) ==
    /\ Len(trail) >= 2
    /\ Len(trail) - 1 \in BlockedFor(d)
    /\ Len(trail) \in UnblockedFor(d)

\* C29: after a dependency_blocked submission for d followed by a
\* dependency_unblocked submission for d, both executed against the stored
\* world, the stored risk risk_dep_blocked_<d> has status closed.
C29_BlockThenUnblockCloses ==
    \A d \in DOMAIN EngineDependencies :
        BlockedThenUnblocked(d) =>
            /\ StoredRisksOf(d) # {}
            /\ \A i \in StoredRisksOf(d) : store.risks[i].status = "closed"

\* what the model finds instead: the engine emits set_risk_status closed for
\* the risk, and the stored risk is still materialised
C29_ClosedOnlyInTheCommand ==
    \A d \in DOMAIN EngineDependencies :
        BlockedThenUnblocked(d) =>
            /\ \E k \in 1..Len(trail[Len(trail)].commands) :
                   /\ trail[Len(trail)].commands[k].command_type = "set_risk_status"
                   /\ trail[Len(trail)].commands[k].target_id = BlockedRiskId(d)
                   /\ trail[Len(trail)].commands[k].payload.status = "closed"
            /\ \A i \in StoredRisksOf(d) : store.risks[i].status = "materialised"

C29_Witness == BlockedThenUnblocked("dep_001") /\ StoredRisksOf("dep_001") # {}

\* ---------------------------------------------------------------- C30
\* the count the confidence label is derived from, in the last direct call
LabelCount == calculate_data_quality(call.milestone_id, result.work).external_dep_count

\* the count the uncertainty buffer is computed from
BufferCount == result.internals.external_dep_count

\* the dependencies of these items on existing items of another milestone
ExternalEdges(items) ==
    UNION {{<<wi.id, k>> :
              k \in {j \in 1..Len(wi.dependencies) :
                       /\ MapHas(CallEnv.wi_lookup, wi.dependencies[j])
                       /\ IsExternal(CallEnv, CallEnv.wi_lookup[wi.dependencies[j]])}} :
           wi \in items}

CallItemsAll ==
    {get_work_items_for_milestone(call.milestone_id, result.work)[i] :
        i \in 1..Len(get_work_items_for_milestone(call.milestone_id, result.work))}

\* C30: within one forecast the external-dependency count of the uncertainty
\* buffer equals the one of the confidence label, and both are the number of
\* dependencies of the milestone's work items on work items of another
\* milestone.
C30_SameExternalCount ==
    DirectOk =>
        /\ BufferCount = LabelCount
        /\ LabelCount = Cardinality(ExternalEdges(CallItemsAll))

\* what the model finds instead: the label counts the dependencies of all
\* the milestone's items, the buffer only those of its incomplete items
C30_BufferCountsIncompleteItems ==
    DirectOk =>
        /\ LabelCount = Cardinality(ExternalEdges(CallItemsAll))
        /\ BufferCount = Cardinality(ExternalEdges(CallItems))

\* a completed item of the milestone depends on an item of another milestone
C30_CompletedItemWitness ==
    /\ DirectOk
    /\ ExternalEdges(CallItemsAll) # ExternalEdges(CallItems)

====
